---- MODULE Spec2Model ----
(***************************************************************************)
(* backup-companion-go: the `backup` command.                              *)
(* LoadConfig (cross-reference validation) -> Execute -> backupJob per job *)
(* (validate sources, validate destinations, working directory, dumps,     *)
(* archive, uploads, deferred cleanup).                                    *)
(*                                                                         *)
(* Strings are modelled as sequences of tokens, so that concatenation is   *)
(* sequence concatenation; a path is a sequence of file names, so that     *)
(* filepath.Join appends a name and filepath.Base takes the last one.      *)
(***************************************************************************)
EXTENDS Integers, Sequences, FiniteSets, TLC

VARIABLES
    cfg,        \* the configuration file's content (models.Config)
    pc,         \* position of the process
    exitCode,   \* process exit code, -1 while the process runs
    load,       \* what LoadConfig was given and what it returned
    pending,    \* Execute: jobs of cfg.Jobs the range loop has not reached yet
    cur,        \* Execute: the job backupJob is running for ("" when none)
    jr,         \* backupJob: locals and log of the current invocation
    calls,      \* per job, the number of backupJob invocations
    outcome,    \* per job, how its last backupJob invocation ended
    fs,         \* the local filesystem: path -> node
    store,      \* the object stores: set of objects [bucket, key, body]
    now,        \* the wall clock, in seconds
    run,        \* the number of this run of the process
    runDirs     \* per run and job, the paths CreateBackupDir and backupJob derived

vars == <<cfg, pc, exitCode, load, pending, cur, jr, calls, outcome, fs, store, now, run, runDirs>>

----------------------------------------------------------------------------
(* Bounds *)

\* the clock runs over 0..MaxClock seconds
MaxClock == 1
\* the process may be started again MaxRestarts times (specification SpecRuns)
MaxRestarts == 1

----------------------------------------------------------------------------
(* Strings and paths *)

\* a string of one token; the empty string has no token
Str(s) == IF s = "" THEN <<>> ELSE <<s>>
Path(names) == names
\* filepath.Join(dir, name)
Join(dir, name) == Append(dir, name)
\* filepath.Base(path)
Base(path) == IF Len(path) = 0 THEN Str(".") ELSE path[Len(path)]
\* path + suffix: the suffix is appended to the last name of the path
Suffix(path, s) == [path EXCEPT ![Len(path)] = @ \o Str(s)]
IsPrefix(p, q) == Len(p) <= Len(q) /\ SubSeq(q, 1, Len(p)) = p

NoPath == <<>>

----------------------------------------------------------------------------
(* The configuration (models.Config) *)

\* sources.databases of the configuration file
SourcesDatabases ==
    [orders |-> [Driver |-> "postgres", Host |-> "db1", Port |-> 5432,
                 User |-> "app", Password |-> "pw-orders", Name |-> "shop"],
     users  |-> [Driver |-> "mysql", Host |-> "db2", Port |-> 3306,
                 User |-> "app", Password |-> "pw-users", Name |-> "accounts"],
     replica |-> [Driver |-> "postgres", Host |-> "db3", Port |-> 5432,
                  User |-> "app", Password |-> "pw-replica", Name |-> "shop"]]

\* sources.directories of the configuration file
SourcesDirectories ==
    [www |-> [Path |-> <<Str("srv"), Str("www")>>],
     static |-> [Path |-> <<Str("srv"), Str("static")>>]]

\* destinations of the configuration file
DestinationsMap ==
    [primary |-> [Provider |-> "s3", BucketName |-> "bk-primary", Region |-> "eu", EndpointURL |-> ""],
     offsite |-> [Provider |-> "minio", BucketName |-> "bk-offsite", Region |-> "", EndpointURL |-> "http://minio"]]

OutDir == <<Str("backups")>>

JobConfig(dir, name, dbs, dirs, dsts) ==
    [Output |-> [Dir |-> dir, Name |-> Str(name)],
     Databases |-> dbs, Directories |-> dirs, Destinations |-> dsts]

JobNames == {"j1", "j2"}

Config(jobs) ==
    [Sources |-> [Databases |-> SourcesDatabases, Directories |-> SourcesDirectories],
     Destinations |-> DestinationsMap,
     Jobs |-> jobs]

\* every configuration whose jobs are named in JobNames and drawn from jobConfigs
ConfigsOver(jobConfigs) ==
    { Config(jobs) : jobs \in UNION { [names -> jobConfigs] : names \in SUBSET JobNames } }

\* job configurations for the validation of references: every field varies
WideJobConfigs ==
    { JobConfig(o[1], o[2], dbs, dirs, dsts) :
        o \in {<<NoPath, "nightly">>, <<OutDir, "">>, <<OutDir, "nightly">>},
        dbs \in {<<>>, <<"orders">>, <<"ghost", "phantom">>, <<"orders", "ghost">>},
        dirs \in {<<>>, <<"nodir">>, <<"www", "nodir">>},
        dsts \in {<<>>, <<"primary">>, <<"nowhere">>} }

\* the jobs of the pipeline: the three job types, with one or two
\* destinations, and two jobs that the validation of references refuses
JobDb == JobConfig(OutDir, "nightly", <<"orders">>, <<>>, <<"primary">>)
JobFiles == JobConfig(OutDir, "nightly", <<>>, <<"www">>, <<"primary", "offsite">>)
JobBoth == JobConfig(OutDir, "weekly", <<"orders", "users">>, <<"www">>, <<"offsite", "primary">>)
JobNoSource == JobConfig(OutDir, "nightly", <<>>, <<>>, <<"primary">>)
JobBadDest == JobConfig(OutDir, "nightly", <<"orders">>, <<>>, <<"nowhere">>)

\* jobs with two sources of a kind: two databases of the same name on two
\* hosts, two directories that both hold an index.html
JobTwins == JobConfig(OutDir, "nightly", <<"orders", "replica">>, <<>>, <<"primary">>)
JobTwoDirs == JobConfig(OutDir, "nightly", <<>>, <<"www", "static">>, <<"primary">>)
\* jobs that name a source or a destination the configuration does not have
JobGhostDb == JobConfig(OutDir, "nightly", <<"ghost", "orders">>, <<>>, <<"primary">>)
JobGhostDir == JobConfig(OutDir, "nightly", <<"orders">>, <<"nodir", "www">>, <<"primary">>)
JobGhostDest == JobConfig(OutDir, "nightly", <<"orders">>, <<>>, <<"nowhere", "primary">>)

\* the configurations of the pipeline: no job, one job, two jobs
PipelineConfigs ==
    { Config(<<>>) }
    \cup { Config([j \in {"j1"} |-> job]) : job \in {JobDb, JobFiles, JobBoth, JobNoSource, JobBadDest} }
    \cup { Config([j \in JobNames |-> IF j = "j1" THEN p[1] ELSE p[2]]) :
             p \in { <<JobDb, JobDb>>, <<JobDb, JobFiles>>, <<JobDb, JobNoSource>> } }

----------------------------------------------------------------------------
(* config.validateReferences *)

Entry(kind, jobName, ref) == [kind |-> kind, job |-> jobName, ref |-> ref]

RECURSIVE UnknownRefsFirst(_, _, _, _)
\* faulty variant of UnknownRefs: the loop stops at the first unknown reference
UnknownRefsFirst(list, known, kind, jobName) ==
    IF list = <<>> THEN <<>>
    ELSE IF Head(list) \notin known THEN <<Entry(kind, jobName, Head(list))>>
    ELSE UnknownRefsFirst(Tail(list), known, kind, jobName)

RECURSIVE UnknownRefs(_, _, _, _)
\* the loop over one list of references: one entry per element that is not a
\* key of the mapping
UnknownRefs(list, known, kind, jobName) ==
    IF list = <<>> THEN <<>>
    ELSE (IF Head(list) \notin known THEN <<Entry(kind, jobName, Head(list))>> ELSE <<>>)
         \o UnknownRefs(Tail(list), known, kind, jobName)

\* faulty variant of validateJobReferences: the check for at least one source is missing
validateJobReferencesNoSourceCheck(c, jobName) ==
    LET job == c.Jobs[jobName] IN
       (IF job.Output.Dir = NoPath \/ job.Output.Name = Str("")
          THEN <<Entry("output", jobName, "")>> ELSE <<>>)
    \o (IF Len(job.Destinations) = 0
          THEN <<Entry("nodestination", jobName, "")>> ELSE <<>>)
    \o UnknownRefs(job.Databases, DOMAIN c.Sources.Databases, "database", jobName)
    \o UnknownRefs(job.Directories, DOMAIN c.Sources.Directories, "directory", jobName)
    \o UnknownRefs(job.Destinations, DOMAIN c.Destinations, "destination", jobName)

\* the body of the loop over cfg.Jobs, for one job
validateJobReferences(c, jobName) ==
    LET job == c.Jobs[jobName] IN
       (IF job.Output.Dir = NoPath \/ job.Output.Name = Str("")
          THEN <<Entry("output", jobName, "")>> ELSE <<>>)
    \o (IF Len(job.Databases) = 0 /\ Len(job.Directories) = 0
          THEN <<Entry("nosource", jobName, "")>> ELSE <<>>)
    \o (IF Len(job.Destinations) = 0
          THEN <<Entry("nodestination", jobName, "")>> ELSE <<>>)
    \o UnknownRefs(job.Databases, DOMAIN c.Sources.Databases, "database", jobName)
    \o UnknownRefs(job.Directories, DOMAIN c.Sources.Directories, "directory", jobName)
    \o UnknownRefs(job.Destinations, DOMAIN c.Destinations, "destination", jobName)

RECURSIVE validateReferences(_, _)
\* the entries written to the builder when the range loop meets the jobs in
\* `order`; the function returns an error iff the result is not empty
validateReferences(c, order) ==
    IF order = <<>> THEN <<>>
    ELSE validateJobReferences(c, Head(order)) \o validateReferences(c, Tail(order))

\* the orders in which a range loop may meet the keys of a map
Orders(keys) ==
    { o \in [1..Cardinality(keys) -> keys] : \A i, j \in DOMAIN o : i # j => o[i] # o[j] }

\* validator.Struct on the Config: the map of jobs is `required` and its values
\* are not descended into (no `dive`), so a configuration with a job always
\* passes; one with no job passes or fails with the map being empty or nil
StructOutcomes(c) == IF DOMAIN c.Jobs = {} THEN {TRUE, FALSE} ELSE {TRUE}

\* faulty variant of LoadConfig: the error of validateReferences is not returned
LoadConfigIgnoringReferences(c, readOk, order, structOk) ==
    IF ~readOk THEN [err |-> TRUE, fatal |-> FALSE, validated |-> FALSE, entries |-> <<>>]
    ELSE [err |-> FALSE, fatal |-> ~structOk, validated |-> TRUE,
          entries |-> validateReferences(c, order)]

\* config.LoadConfig: err is TRUE when it returns an error, fatal when it ends
\* the process itself (log.Fatalf); validated tells whether validateReferences
\* was reached and entries are those it wrote
LoadConfig(c, readOk, order, structOk) ==
    IF ~readOk THEN [err |-> TRUE, fatal |-> FALSE, validated |-> FALSE, entries |-> <<>>]
    ELSE LET b == validateReferences(c, order) IN
         IF Len(b) > 0 THEN [err |-> TRUE, fatal |-> FALSE, validated |-> TRUE, entries |-> b]
         ELSE IF ~structOk THEN [err |-> FALSE, fatal |-> TRUE, validated |-> TRUE, entries |-> b]
         ELSE [err |-> FALSE, fatal |-> FALSE, validated |-> TRUE, entries |-> b]

----------------------------------------------------------------------------
(* The filesystem *)

DirNode == [kind |-> "dir", data |-> <<>>, tar |-> {}]
FileNode(data) == [kind |-> "file", data |-> data, tar |-> {}]
\* an archive file: the headers (and contents) written to it
ArchiveNode(entries, complete) ==
    [kind |-> "file", data |-> IF complete THEN Str("tar.gz") ELSE Str("tar.gz-truncated"),
     tar |-> entries]

Exists(f, p) == p \in DOMAIN f
Put(f, p, node) == [q \in DOMAIN f \cup {p} |-> IF q = p THEN node ELSE f[q]]
Prefixes(p) == { SubSeq(p, 1, n) : n \in 1..Len(p) }
\* os.MkdirAll(p), when it succeeds: p and its missing parents are directories
MkdirAll(f, p) == [q \in DOMAIN f \cup Prefixes(p) |-> IF q \in DOMAIN f THEN f[q] ELSE DirNode]
\* os.RemoveAll(p), when it succeeds: p and everything below it are gone
RemoveAll(f, p) == [q \in { r \in DOMAIN f : ~IsPrefix(p, r) } |-> f[q]]
Children(f, p) == { q \in DOMAIN f : IsPrefix(p, q) /\ q # p }
\* os.Remove(p) can succeed only on a file or an empty directory that exists
CanRemove(f, p) == Exists(f, p) /\ Children(f, p) = {}
Remove(f, p) == [q \in DOMAIN f \ {p} |-> f[q]]
\* filepath.Rel(base, p) for p at or below base
Rel(base, p) == SubSeq(p, Len(base) + 1, Len(p))

\* time.Now().Format(layout) at second t of the clock
TwoDigits(t) == <<"00", "01", "02", "03", "04", "05", "06", "07", "08", "09">>[t + 1]
TimeFormat(layout, t) ==
    CASE layout = "2006-01-02-15-04-05" ->
           <<"2025", "-", "11", "-", "01", "-", "00", "-", "00", "-", TwoDigits(t)>>
      [] layout = "20060102150405" ->
           <<"2025", "11", "01", "00", "00", TwoDigits(t)>>
\* what a later call of time.Now() may return
Later(t) == { u \in {t, t + 1} : u <= MaxClock }

----------------------------------------------------------------------------
(* backup.validateJobDatabases, backup.validateJobDestinations *)

Err(kind, name) == [kind |-> kind, name |-> name]

RECURSIVE validateJobDatabasesFirstError(_, _, _, _)
\* faulty variant of validateJobDatabases: the loop returns at the first error
validateJobDatabasesFirstError(c, job, probe, i) ==
    IF i > Len(job.Databases) THEN <<>>
    ELSE LET dbName == job.Databases[i] IN
         IF dbName \notin DOMAIN c.Sources.Databases THEN <<Err("notfound", dbName)>>
         ELSE IF ~probe[i] THEN <<Err("connection", dbName)>>
         ELSE validateJobDatabasesFirstError(c, job, probe, i + 1)

RECURSIVE validateJobDatabases(_, _, _, _)
\* the loop from element i on; probe[i] tells whether database.ValidateConnection
\* succeeds for element i. The function returns an error iff the result is
\* not empty
validateJobDatabases(c, job, probe, i) ==
    IF i > Len(job.Databases) THEN <<>>
    ELSE LET dbName == job.Databases[i] IN
         (IF dbName \in DOMAIN c.Sources.Databases
            THEN (IF probe[i] THEN <<>> ELSE <<Err("connection", dbName)>>)
            ELSE <<Err("notfound", dbName)>>)
         \o validateJobDatabases(c, job, probe, i + 1)

RECURSIVE validateJobDestinationsNoContinue(_, _, _, _)
\* faulty variant of validateJobDestinations: after a failed NewS3Client the
\* bucket check is still made, on a nil client, and fails too
validateJobDestinationsNoContinue(c, job, res, i) ==
    IF i > Len(job.Destinations) THEN <<>>
    ELSE LET destName == job.Destinations[i] IN
         (IF destName \in DOMAIN c.Destinations
            THEN (IF res[i] = "client" THEN <<Err("client", destName), Err("connection", destName)>>
                  ELSE IF res[i] = "head" THEN <<Err("connection", destName)>>
                  ELSE <<>>)
            ELSE <<Err("notfound", destName)>>)
         \o validateJobDestinationsNoContinue(c, job, res, i + 1)

RECURSIVE validateJobDestinations(_, _, _, _)
\* the loop from element i on; res[i] is "ok", "client" (NewS3Client fails) or
\* "head" (S3Client.ValidateConnection fails)
validateJobDestinations(c, job, res, i) ==
    IF i > Len(job.Destinations) THEN <<>>
    ELSE LET destName == job.Destinations[i] IN
         (IF destName \in DOMAIN c.Destinations
            THEN (IF res[i] = "client" THEN <<Err("client", destName)>>
                  ELSE IF res[i] = "head" THEN <<Err("connection", destName)>>
                  ELSE <<>>)
            ELSE <<Err("notfound", destName)>>)
         \o validateJobDestinations(c, job, res, i + 1)

\* faulty variant of getJobType: a job with directories is files-only, whatever
\* databases it lists
getJobTypeByFiles(job) ==
    LET hasFiles == Len(job.Directories) > 0
        hasDatabases == Len(job.Databases) > 0
    IN  IF hasFiles THEN "files-only"
        ELSE IF hasDatabases THEN "databases-only"
        ELSE "both"

\* backup.getJobType
getJobType(job) ==
    LET hasFiles == Len(job.Directories) > 0
        hasDatabases == Len(job.Databases) > 0
    IN  IF hasFiles /\ ~hasDatabases THEN "files-only"
        ELSE IF ~hasFiles /\ hasDatabases THEN "databases-only"
        ELSE "both"

----------------------------------------------------------------------------
(* util.CreateBackupDir, the dumpers, util.CreateTarGz *)

\* faulty variant of CreateBackupDir: the timestamp has the layout of the dump files
CreateBackupDirCompact(f, output, t, okOut, okDir) ==
    LET missing == ~Exists(f, output.Dir)
        f1 == IF missing /\ okOut THEN MkdirAll(f, output.Dir) ELSE f
        timestamp == TimeFormat("20060102150405", t)
        backupDir == Join(output.Dir, output.Name \o Str("-") \o timestamp)
    IN  IF missing /\ ~okOut THEN [err |-> TRUE, backupDir |-> NoPath, fs |-> f]
        ELSE IF ~okDir THEN [err |-> TRUE, backupDir |-> NoPath, fs |-> f1]
        ELSE [err |-> FALSE, backupDir |-> backupDir, fs |-> MkdirAll(f1, backupDir)]

\* util.CreateBackupDir at second t; okOut, okDir: whether the MkdirAll of the
\* output directory (when it is missing) and of the backup directory succeed
CreateBackupDir(f, output, t, okOut, okDir) ==
    LET missing == ~Exists(f, output.Dir)
        f1 == IF missing /\ okOut THEN MkdirAll(f, output.Dir) ELSE f
        timestamp == TimeFormat("2006-01-02-15-04-05", t)
        backupDir == Join(output.Dir, output.Name \o Str("-") \o timestamp)
    IN  IF missing /\ ~okOut THEN [err |-> TRUE, backupDir |-> NoPath, fs |-> f]
        ELSE IF ~okDir THEN [err |-> TRUE, backupDir |-> NoPath, fs |-> f1]
        ELSE [err |-> FALSE, backupDir |-> backupDir, fs |-> MkdirAll(f1, backupDir)]

\* the tree below a source directory, in the order filepath.Walk visits it
SourceTree(path) ==
    IF path = <<Str("srv"), Str("www")>>
    THEN << [rel |-> <<>>, node |-> DirNode],
            [rel |-> <<Str("img")>>, node |-> DirNode],
            [rel |-> <<Str("index.html")>>, node |-> FileNode(Str("<html>"))] >>
    ELSE IF path = <<Str("srv"), Str("static")>>
    THEN << [rel |-> <<>>, node |-> DirNode],
            [rel |-> <<Str("index.html")>>, node |-> FileNode(Str("<static>"))] >>
    ELSE <<>>

RECURSIVE CopyTree(_, _, _, _)
\* the first k visits of the walk of BackupDirectory: MkdirAll for a
\* directory, efficientCopy for a file
CopyTree(f, tree, backupDir, k) ==
    IF k = 0 THEN f
    ELSE LET f1 == CopyTree(f, tree, backupDir, k - 1)
             targetPath == backupDir \o tree[k].rel
         IN  IF tree[k].node.kind = "dir" THEN MkdirAll(f1, targetPath)
             ELSE Put(f1, targetPath, tree[k].node)

\* filesystem.BackupDirectory; the walk fails at visit k + 1 when k is less
\* than the number of visits
BackupDirectory(f, dir, backupDir, k) == CopyTree(f, SourceTree(dir.Path), backupDir, k)

RECURSIVE BackupFilesOnly(_, _, _, _, _, _)
\* filesystem.BackupFilesOnly, from element i of job.Directories on
BackupFilesOnly(f, c, job, backupDir, ks, i) ==
    IF i > Len(job.Directories) THEN f
    ELSE LET dirName == job.Directories[i]
             f1 == IF dirName \in DOMAIN c.Sources.Directories
                   THEN BackupDirectory(f, c.Sources.Directories[dirName], backupDir, ks[i])
                   ELSE f
         IN  BackupFilesOnly(f1, c, job, backupDir, ks, i + 1)

\* database.BackupDatabase at second t; res is "ok", "nofile" (the dump fails
\* and leaves nothing) or "partial" (the dump fails and leaves a file)
fileExtension(db) ==
    CASE db.Driver = "postgres" -> ".pgdump"
      [] db.Driver = "mysql" -> ".sql.gz"
      [] OTHER -> ".unknown.dump"
outputPath(db, backupDir, t) ==
    Join(backupDir, Str(db.Name) \o Str("_") \o TimeFormat("20060102150405", t) \o Str(fileExtension(db)))
\* fmt.Sprintf("%d", port)
Sprintd(n) == CASE n = 5432 -> "5432" [] n = 3306 -> "3306" [] OTHER -> "0"
RECURSIVE PathString(_)
\* a path as the string handed to a process: its names joined by /
PathString(path) ==
    IF Len(path) = 0 THEN <<>>
    ELSE IF Len(path) = 1 THEN path[1]
    ELSE path[1] \o Str("/") \o PathString(Tail(path))
\* os.Environ(): what the process itself was started with
Environ == { <<"PATH", "=", "/usr/bin">> }
\* the process backupPostgres starts: pg_dump, its arguments and environment
backupPostgres(db, out) ==
    [name |-> "pg_dump",
     args |-> << Str("-h"), Str(db.Host), Str("-p"), Str(Sprintd(db.Port)), Str("-U"), Str(db.User),
                 Str("-F"), Str("c"), Str("-b"), Str("-v"), Str("-f"), PathString(out), Str(db.Name) >>,
     env |-> Environ \cup { <<"PGPASSWORD", "=", db.Password>> }]
\* faulty variant of backupMysql: the password is given to mysqldump as -p<password>
backupMysqlPasswordArg(db, out) ==
    [name |-> "mysqldump",
     args |-> << Str("-h"), Str(db.Host), <<"-P", Sprintd(db.Port)>>, <<"-u", db.User>>,
                 <<"-p", db.Password>>,
                 Str("--single-transaction"), Str("--quick"), Str(db.Name) >>,
     env |-> Environ]
\* the process backupMysql starts: mysqldump, its arguments and environment;
\* its output is piped into the file backupMysql created
backupMysql(db, out) ==
    [name |-> "mysqldump",
     args |-> << Str("-h"), Str(db.Host), <<"-P", Sprintd(db.Port)>>, <<"-u", db.User>>,
                 Str("--single-transaction"), Str("--quick"), Str(db.Name) >>,
     env |-> Environ \cup { <<"MYSQL_PWD", "=", db.Password>> }]
\* the processes BackupDatabase starts for db: none for an unsupported driver,
\* and none when backupMysql cannot create its output file
Spawn(db, backupDir, t, res) ==
    CASE db.Driver = "postgres" -> { backupPostgres(db, outputPath(db, backupDir, t)) }
      [] db.Driver = "mysql" /\ res # "nofile" -> { backupMysql(db, outputPath(db, backupDir, t)) }
      [] OTHER -> {}
\* the processes BackupDatabasesOnly starts for the job
Spawned(c, job, backupDir, ts, rs) ==
    UNION { Spawn(c.Sources.Databases[job.Databases[i]], backupDir, ts[i], rs[i]) :
              i \in { n \in DOMAIN ts : job.Databases[n] \in DOMAIN c.Sources.Databases } }
BackupDatabase(f, db, backupDir, t, res) ==
    CASE res = "ok" -> Put(f, outputPath(db, backupDir, t), FileNode(<<"dump", db.Host, db.Name>>))
      [] res = "partial" -> Put(f, outputPath(db, backupDir, t), FileNode(<<"partial", db.Host, db.Name>>))
      [] OTHER -> f

RECURSIVE BackupDatabasesOnlyUntilFailure(_, _, _, _, _, _, _)
\* faulty variant of BackupDatabasesOnly: the loop ends at the first database
\* that is unknown or whose dump fails
BackupDatabasesOnlyUntilFailure(f, c, job, backupDir, ts, rs, i) ==
    IF i > Len(job.Databases) THEN f
    ELSE LET dbName == job.Databases[i] IN
         IF dbName \notin DOMAIN c.Sources.Databases THEN f
         ELSE IF rs[i] # "ok" THEN BackupDatabase(f, c.Sources.Databases[dbName], backupDir, ts[i], rs[i])
         ELSE BackupDatabasesOnlyUntilFailure(
                  BackupDatabase(f, c.Sources.Databases[dbName], backupDir, ts[i], rs[i]),
                  c, job, backupDir, ts, rs, i + 1)

RECURSIVE BackupDatabasesOnly(_, _, _, _, _, _, _)
\* database.BackupDatabasesOnly, from element i of job.Databases on
BackupDatabasesOnly(f, c, job, backupDir, ts, rs, i) ==
    IF i > Len(job.Databases) THEN f
    ELSE LET dbName == job.Databases[i]
             f1 == IF dbName \in DOMAIN c.Sources.Databases
                   THEN BackupDatabase(f, c.Sources.Databases[dbName], backupDir, ts[i], rs[i])
                   ELSE f
         IN  BackupDatabasesOnly(f1, c, job, backupDir, ts, rs, i + 1)

\* the switch of backupJob on getJobType
Dump(f, c, job, backupDir, ks, ts, rs) ==
    CASE getJobType(job) = "files-only" -> BackupFilesOnly(f, c, job, backupDir, ks, 1)
      [] getJobType(job) = "databases-only" -> BackupDatabasesOnly(f, c, job, backupDir, ts, rs, 1)
      [] OTHER -> BackupDatabasesOnly(BackupFilesOnly(f, c, job, backupDir, ks, 1),
                                      c, job, backupDir, ts, rs, 1)

\* the tokens of file names, in byte order
TokenOrder ==
    <<"-", ".pgdump", ".sql.gz", ".tar.gz", ".unknown.dump",
      "00", "01", "02", "03", "04", "05", "06", "07", "08", "09", "11", "2025",
      "_", "accounts", "backups", "img", "index.html", "nightly", "shop", "weekly">>
TokenRank(tok) == CHOOSE i \in 1..Len(TokenOrder) : TokenOrder[i] = tok

RECURSIVE NameLess(_, _)
NameLess(a, b) ==
    IF a = <<>> THEN b # <<>>
    ELSE IF b = <<>> THEN FALSE
    ELSE IF Head(a) = Head(b) THEN NameLess(Tail(a), Tail(b))
    ELSE TokenRank(Head(a)) < TokenRank(Head(b))

RECURSIVE PathLess(_, _)
\* the lexical order in which filepath.Walk visits two paths
PathLess(p, q) ==
    IF p = <<>> THEN q # <<>>
    ELSE IF q = <<>> THEN FALSE
    ELSE IF Head(p) = Head(q) THEN PathLess(Tail(p), Tail(q))
    ELSE NameLess(Head(p), Head(q))

RECURSIVE SetToSeq(_)
SetToSeq(S) == IF S = {} THEN <<>> ELSE LET x == CHOOSE x \in S : TRUE IN <<x>> \o SetToSeq(S \ {x})

\* the paths filepath.Walk(root) visits, in order
WalkOrder(f, root) == SortSeq(SetToSeq({ q \in DOMAIN f : IsPrefix(root, q) }), PathLess)

\* the tar entry written for path q: its header (name relative to sourceDir)
\* and, for a file, its content
TarEntry(f, sourceDir, q) == [rel |-> Rel(sourceDir, q), kind |-> f[q].kind, data |-> f[q].data]

\* faulty variant of CreateTarGz: the walk skips the directories
CreateTarGzFilesOnly(f, sourceDir, targetFile, createOk, k, closeOk) ==
    LET walk == WalkOrder(f, sourceDir)
        written == { e \in { TarEntry(f, sourceDir, walk[i]) : i \in 1..k } : e.kind = "file" }
    IN  IF ~createOk THEN [err |-> TRUE, fs |-> f]
        ELSE IF k < Len(walk) THEN [err |-> TRUE, fs |-> Put(f, targetFile, ArchiveNode(written, FALSE))]
        ELSE [err |-> FALSE, fs |-> Put(f, targetFile, ArchiveNode(written, closeOk))]

\* util.CreateTarGz; createOk: whether os.Create(targetFile) succeeds; k: the
\* number of visits of the walk that succeed (all of them when the walk does);
\* closeOk: whether the deferred Close calls of the tar writer, the gzip
\* writer and the file succeed. Their errors are dropped: the function
\* returns what the walk returned
CreateTarGz(f, sourceDir, targetFile, createOk, k, closeOk) ==
    LET walk == WalkOrder(f, sourceDir)
        written == { TarEntry(f, sourceDir, walk[i]) : i \in 1..k }
    IN  IF ~createOk THEN [err |-> TRUE, fs |-> f]
        ELSE IF k < Len(walk) THEN [err |-> TRUE, fs |-> Put(f, targetFile, ArchiveNode(written, FALSE))]
        ELSE [err |-> FALSE, fs |-> Put(f, targetFile, ArchiveNode(written, closeOk))]

----------------------------------------------------------------------------
(* remotestorage: NewS3Client, S3Client.UploadFile, UploadArchiveToDestinations *)

\* remotestorage.NewS3Client, when it succeeds
NewS3Client(destConfig) == [bucketName |-> destConfig.BucketName]

Object(bucket, key, body) == [bucket |-> bucket, key |-> key, body |-> body]
\* s3 PutObject: the object replaces one of the same bucket and key
PutObject(st, bucket, key, body) ==
    { o \in st : ~(o.bucket = bucket /\ o.key = key) } \cup {Object(bucket, key, body)}

\* S3Client.UploadFile; putOk: whether PutObject succeeds; puts: the inputs of
\* the PutObject requests it sent
UploadFile(f, st, client, filePath, objectKey, putOk) ==
    LET input == [bucket |-> client.bucketName, key |-> objectKey] IN
    IF ~Exists(f, filePath) \/ f[filePath].kind # "file" THEN [err |-> TRUE, store |-> st, puts |-> <<>>]
    ELSE IF ~putOk THEN [err |-> TRUE, store |-> st, puts |-> <<input>>]
    ELSE [err |-> FALSE, store |-> PutObject(st, input.bucket, input.key, f[filePath]), puts |-> <<input>>]

\* faulty variant of objectKey: the base name of the working directory
objectKeyOfBackupDir(archivePath) == SubSeq(Base(archivePath), 1, Len(Base(archivePath)) - 1)

\* the object key of the archive of a run
objectKey(archivePath) == Base(archivePath)

\* remotestorage.UploadArchiveToDestinations, for one destination of the job:
\* resolve the name, construct the client, check the bucket, upload. res is
\* "ok", "client", "head" or "put" (the step that fails)
UploadToDestination(f, st, c, destName, archivePath, res) ==
    IF destName \notin DOMAIN c.Destinations
    THEN [errs |-> <<Err("notfound", destName)>>, store |-> st, puts |-> <<>>]
    ELSE IF res = "client" THEN [errs |-> <<Err("client", destName)>>, store |-> st, puts |-> <<>>]
    ELSE IF res = "head" THEN [errs |-> <<Err("connection", destName)>>, store |-> st, puts |-> <<>>]
    ELSE LET up == UploadFile(f, st, NewS3Client(c.Destinations[destName]),
                              archivePath, objectKey(archivePath), res # "put")
         IN  [errs |-> IF up.err THEN <<Err("upload", destName)>> ELSE <<>>,
              store |-> up.store, puts |-> up.puts]

\* faulty variant of UploadReport: a failure is logged whatever the result
UploadReportAlwaysFailed(errs) == "CompletedWithUploadErrors"

\* faulty variant of UploadReport: success is logged whatever the result
UploadReportSilent(errs) == "Completed"

\* backupJob on the result of UploadArchiveToDestinations: an error is
\* logged as a failure at one or more destinations
UploadReport(errs) == IF errs # <<>> THEN "CompletedWithUploadErrors" ELSE "Completed"

\* faulty variant of Cleanup: only the working directory is removed
CleanupDirOnly(f, backupDir, archivePath, rmDirOk, rmArchOk) ==
    [fs |-> IF rmDirOk THEN RemoveAll(f, backupDir) ELSE f,
     errs |-> IF rmDirOk THEN <<>> ELSE <<Err("cleanup", "backupDir")>>]

\* faulty variant of Cleanup: when os.RemoveAll fails the function returns, and
\* the archive is not touched
CleanupUntilFailure(f, backupDir, archivePath, rmDirOk, rmArchOk) ==
    LET removed == rmArchOk /\ CanRemove(RemoveAll(f, backupDir), archivePath) IN
    IF ~rmDirOk THEN [fs |-> f, errs |-> <<Err("cleanup", "backupDir")>>]
    ELSE [fs |-> IF removed THEN Remove(RemoveAll(f, backupDir), archivePath) ELSE RemoveAll(f, backupDir),
          errs |-> IF removed THEN <<>> ELSE <<Err("cleanup", "archive")>>]

\* faulty variant of Cleanup: the directory that holds the working directory
\* is removed, with everything in it
CleanupOutputDir(f, backupDir, archivePath, rmDirOk, rmArchOk) ==
    LET f1 == IF rmDirOk THEN RemoveAll(f, SubSeq(backupDir, 1, Len(backupDir) - 1)) ELSE f
        removed == rmArchOk /\ CanRemove(f1, archivePath)
    IN  [fs |-> IF removed THEN Remove(f1, archivePath) ELSE f1,
         errs |-> (IF rmDirOk THEN <<>> ELSE <<Err("cleanup", "backupDir")>>)
                  \o (IF removed THEN <<>> ELSE <<Err("cleanup", "archive")>>)]

\* the deferred function of backupJob; rmDirOk, rmArchOk: whether the
\* removals succeed when they can
Cleanup(f, backupDir, archivePath, rmDirOk, rmArchOk) ==
    LET f1 == IF rmDirOk THEN RemoveAll(f, backupDir) ELSE f
        removed == rmArchOk /\ CanRemove(f1, archivePath)
    IN  [fs |-> IF removed THEN Remove(f1, archivePath) ELSE f1,
         errs |-> (IF rmDirOk THEN <<>> ELSE <<Err("cleanup", "backupDir")>>)
                  \o (IF removed THEN <<>> ELSE <<Err("cleanup", "archive")>>)]

----------------------------------------------------------------------------
(* The process *)

Op(op, target) == [op |-> op, target |-> target]

\* the locals of a backupJob invocation, and the log of what it did
NewRun(f) ==
    [backupDir |-> NoPath, archivePath |-> NoPath,
     srcErrs |-> <<>>, dstErrs |-> <<>>, uploadErrs |-> <<>>, cleanupErrs |-> <<>>,
     next |-> 1, ops |-> {}, failed |-> {}, upRes |-> <<>>, puts |-> <<>>,
     fs0 |-> f, deferred |-> FALSE,
     probe |-> <<>>, vres |-> <<>>, ks |-> <<>>, ts |-> <<>>, rs |-> <<>>,
     archRes |-> "", wrote |-> {}, trace |-> <<>>, jobType |-> "",
     archive |-> <<>>, spawned |-> {}]

Job == cfg.Jobs[cur]

\* before backupCmd.Run called LoadConfig
NotLoaded ==
    [called |-> FALSE, readOk |-> FALSE, structOk |-> FALSE,
     err |-> FALSE, fatal |-> FALSE, validated |-> FALSE, entries |-> <<>>]

Configs == PipelineConfigs
InitialFs == { <<>>, MkdirAll(<<>>, OutDir) }

InitWith(configs) ==
    /\ cfg \in configs
    /\ fs \in InitialFs
    /\ store = {}
    /\ now = 0
    /\ run = 1
    /\ runDirs = {}
    /\ pc = "start"
    /\ exitCode = -1
    /\ load = NotLoaded
    /\ pending = {}
    /\ cur = ""
    /\ jr = NewRun(fs)
    /\ calls = [j \in DOMAIN cfg.Jobs |-> 0]
    /\ outcome = [j \in DOMAIN cfg.Jobs |-> "Pending"]

Init == InitWith(Configs)

\* backupCmd.Run: LoadConfig, then log.Fatalf or backup.Execute
Run ==
    /\ pc = "start"
    /\ \E readOk \in BOOLEAN, order \in Orders(DOMAIN cfg.Jobs), structOk \in StructOutcomes(cfg) :
         LET r == LoadConfig(cfg, readOk, order, structOk) IN
         /\ load' = [called |-> TRUE, readOk |-> readOk, structOk |-> structOk,
                      err |-> r.err, fatal |-> r.fatal, validated |-> r.validated,
                      entries |-> r.entries]
         /\ IF r.err \/ r.fatal
            THEN pc' = "exited" /\ exitCode' = 1 /\ pending' = {}
            ELSE pc' = "execute" /\ exitCode' = exitCode /\ pending' = DOMAIN cfg.Jobs
    /\ UNCHANGED <<cfg, cur, jr, calls, outcome, fs, store, now, run, runDirs>>

\* faulty variant of ExecuteNext: the next job is started while the deferred
\* function of the job before it has not run
ExecuteNextEarly ==
    /\ pc \in {"execute", "cleanup"}
    /\ \E jobName \in pending :
         /\ cur' = jobName
         /\ pending' = pending \ {jobName}
         /\ calls' = [calls EXCEPT ![jobName] = @ + 1]
         /\ outcome' = [outcome EXCEPT ![jobName] = "Pending"]
    /\ jr' = [NewRun(fs) EXCEPT !.trace = <<"ValidatingSources">>]
    /\ pc' = "validatingSources"
    /\ UNCHANGED <<cfg, exitCode, load, fs, store, now, run, runDirs>>

\* faulty variant of ExecuteNext: a job that did not complete is taken again
ExecuteNextRetrying ==
    /\ pc = "execute"
    /\ \E jobName \in pending \cup { j \in DOMAIN outcome : outcome[j] \notin {"Pending", "Completed"} } :
         /\ cur' = jobName
         /\ pending' = pending \ {jobName}
         /\ calls' = [calls EXCEPT ![jobName] = 1]
         /\ outcome' = [outcome EXCEPT ![jobName] = "Pending"]
    /\ jr' = [NewRun(fs) EXCEPT !.trace = <<"ValidatingSources">>]
    /\ pc' = "validatingSources"
    /\ UNCHANGED <<cfg, exitCode, load, fs, store, now, run, runDirs>>

\* backup.Execute: the range loop reaches a job and calls backupJob
ExecuteNext ==
    /\ pc = "execute"
    /\ \E jobName \in pending :
         /\ cur' = jobName
         /\ pending' = pending \ {jobName}
         /\ calls' = [calls EXCEPT ![jobName] = @ + 1]
         /\ outcome' = [outcome EXCEPT ![jobName] = "Pending"]
    /\ jr' = [NewRun(fs) EXCEPT !.trace = <<"ValidatingSources">>]
    /\ pc' = "validatingSources"
    /\ UNCHANGED <<cfg, exitCode, load, fs, store, now, run, runDirs>>

\* faulty variant of ExecuteReturn: the loop ends at the first job that fails
ExecuteReturnOnFailure ==
    /\ pc = "execute"
    /\ pending = {} \/ (\E j \in DOMAIN outcome : outcome[j] \notin {"Pending", "Completed"})
    /\ pc' = "exited"
    /\ exitCode' = 0
    /\ UNCHANGED <<cfg, load, pending, cur, jr, calls, outcome, fs, store, now, run, runDirs>>

\* faulty variant of ExecuteReturn: a job that did not complete makes the exit code 1
ExecuteReturnFailing ==
    /\ pc = "execute"
    /\ pending = {}
    /\ pc' = "exited"
    /\ exitCode' = IF \E j \in DOMAIN outcome : outcome[j] # "Completed" THEN 1 ELSE 0
    /\ UNCHANGED <<cfg, load, pending, cur, jr, calls, outcome, fs, store, now, run, runDirs>>

\* backup.Execute: the range loop is over; Run returns and the process exits
ExecuteReturn ==
    /\ pc = "execute"
    /\ pending = {}
    /\ pc' = "exited"
    /\ exitCode' = 0
    /\ UNCHANGED <<cfg, load, pending, cur, jr, calls, outcome, fs, store, now, run, runDirs>>

\* faulty variant of ValidateSources: the errors of validateJobDatabases are
\* logged and the job goes on to validate its destinations
ValidateSourcesLogged ==
    /\ pc = "validatingSources"
    /\ \E probe \in [1..Len(Job.Databases) -> BOOLEAN] :
         LET errs == validateJobDatabases(cfg, Job, probe, 1)
             probed == { Op("probe", Job.Databases[i]) :
                           i \in { n \in 1..Len(Job.Databases) :
                                     Job.Databases[n] \in DOMAIN cfg.Sources.Databases } }
             failed == IF \E i \in 1..Len(Job.Databases) :
                               Op("probe", Job.Databases[i]) \in probed /\ ~probe[i]
                       THEN {"probe"} ELSE {}
         IN  /\ jr' = [jr EXCEPT !.srcErrs = errs, !.ops = @ \cup probed, !.failed = @ \cup failed,
                                 !.probe = probe,
                                 !.trace = Append(@, "ValidatingDestinations")]
             /\ pc' = "validatingDestinations" /\ outcome' = outcome
    /\ UNCHANGED <<cfg, exitCode, load, pending, cur, calls, fs, store, now, run, runDirs>>

\* backupJob: validateJobDatabases, and the return when it fails
ValidateSources ==
    /\ pc = "validatingSources"
    /\ \E probe \in [1..Len(Job.Databases) -> BOOLEAN] :
         LET errs == validateJobDatabases(cfg, Job, probe, 1)
             probed == { Op("probe", Job.Databases[i]) :
                           i \in { n \in 1..Len(Job.Databases) :
                                     Job.Databases[n] \in DOMAIN cfg.Sources.Databases } }
             failed == IF \E i \in 1..Len(Job.Databases) :
                               Op("probe", Job.Databases[i]) \in probed /\ ~probe[i]
                       THEN {"probe"} ELSE {}
         IN  /\ jr' = [jr EXCEPT !.srcErrs = errs, !.ops = @ \cup probed, !.failed = @ \cup failed,
                                 !.probe = probe,
                                 !.trace = IF errs # <<>> THEN @ ELSE Append(@, "ValidatingDestinations")]
             /\ IF errs # <<>>
                THEN pc' = "execute" /\ outcome' = [outcome EXCEPT ![cur] = "SkippedValidation"]
                ELSE pc' = "validatingDestinations" /\ outcome' = outcome
    /\ UNCHANGED <<cfg, exitCode, load, pending, cur, calls, fs, store, now, run, runDirs>>

\* faulty variant of ValidateDestinations: the errors are logged and the job goes on
ValidateDestinationsLogged ==
    /\ pc = "validatingDestinations"
    /\ \E res \in [1..Len(Job.Destinations) -> {"ok", "client", "head"}] :
         jr' = [jr EXCEPT !.dstErrs = validateJobDestinations(cfg, Job, res, 1), !.vres = res,
                          !.trace = Append(@, "CreatingDir")]
    /\ pc' = "creatingDir"
    /\ UNCHANGED <<cfg, exitCode, load, pending, cur, calls, outcome, fs, store, now, run, runDirs>>

\* backupJob: validateJobDestinations, and the return when it fails
ValidateDestinations ==
    /\ pc = "validatingDestinations"
    /\ \E res \in [1..Len(Job.Destinations) -> {"ok", "client", "head"}] :
         LET errs == validateJobDestinations(cfg, Job, res, 1)
             known == { n \in 1..Len(Job.Destinations) : Job.Destinations[n] \in DOMAIN cfg.Destinations }
             done == { Op("newclient", Job.Destinations[i]) : i \in known }
                     \cup { Op("headbucket", Job.Destinations[i]) : i \in { n \in known : res[n] # "client" } }
             failed == IF \E i \in known : res[i] # "ok" THEN {"destination"} ELSE {}
         IN  /\ jr' = [jr EXCEPT !.dstErrs = errs, !.ops = @ \cup done, !.failed = @ \cup failed,
                                 !.vres = res,
                                 !.trace = IF errs # <<>> THEN @ ELSE Append(@, "CreatingDir")]
             /\ IF errs # <<>>
                THEN pc' = "execute" /\ outcome' = [outcome EXCEPT ![cur] = "SkippedValidation"]
                ELSE pc' = "creatingDir" /\ outcome' = outcome
    /\ UNCHANGED <<cfg, exitCode, load, pending, cur, calls, fs, store, now, run, runDirs>>

\* backupJob: archivePath := backupDir + ".tar.gz"
archivePathOf(backupDir) == Suffix(backupDir, ".tar.gz")

\* faulty variant of CreateDir: the cleanup is deferred before
\* util.CreateBackupDir is called, so it runs when the call fails too
CreateDirDeferredFirst ==
    /\ pc = "creatingDir"
    /\ \E t \in Later(now), okOut \in BOOLEAN, okDir \in BOOLEAN :
         LET r == CreateBackupDir(fs, Job.Output, t, okOut, okDir) IN
         /\ fs' = r.fs
         /\ now' = t
         /\ IF r.err
            THEN /\ pc' = "cleanup"
                 /\ outcome' = [outcome EXCEPT ![cur] = "SkippedCreateDir"]
                 /\ jr' = [jr EXCEPT !.deferred = TRUE,
                                     !.ops = @ \cup {Op("mkdir", "")}, !.failed = @ \cup {"mkdir"}]
                 /\ runDirs' = runDirs
            ELSE /\ pc' = "dumping"
                 /\ outcome' = outcome
                 /\ jr' = [jr EXCEPT !.backupDir = r.backupDir,
                                     !.archivePath = archivePathOf(r.backupDir),
                                     !.deferred = TRUE,
                                     !.ops = @ \cup {Op("mkdir", "")},
                                     !.trace = Append(@, "Dumping")]
                 /\ runDirs' = runDirs \cup {[run |-> run, job |-> cur, backupDir |-> r.backupDir,
                                              archivePath |-> archivePathOf(r.backupDir)]}
    /\ UNCHANGED <<cfg, exitCode, load, pending, cur, calls, store, run>>

\* backupJob: util.CreateBackupDir, the return when it fails, the defer
CreateDir ==
    /\ pc = "creatingDir"
    /\ \E t \in Later(now), okOut \in BOOLEAN, okDir \in BOOLEAN :
         LET r == CreateBackupDir(fs, Job.Output, t, okOut, okDir) IN
         /\ fs' = r.fs
         /\ now' = t
         /\ IF r.err
            THEN /\ pc' = "execute"
                 /\ outcome' = [outcome EXCEPT ![cur] = "SkippedCreateDir"]
                 /\ jr' = [jr EXCEPT !.ops = @ \cup {Op("mkdir", "")}, !.failed = @ \cup {"mkdir"}]
                 /\ runDirs' = runDirs
            ELSE /\ pc' = "dumping"
                 /\ outcome' = outcome
                 /\ jr' = [jr EXCEPT !.backupDir = r.backupDir,
                                     !.archivePath = archivePathOf(r.backupDir),
                                     !.deferred = TRUE,
                                     !.ops = @ \cup {Op("mkdir", "")},
                                     !.trace = Append(@, "Dumping")]
                 /\ runDirs' = runDirs \cup {[run |-> run, job |-> cur, backupDir |-> r.backupDir,
                                              archivePath |-> archivePathOf(r.backupDir)]}
    /\ UNCHANGED <<cfg, exitCode, load, pending, cur, calls, store, run>>

\* the number of visits of the walk of directory source i of the job
Visits(c, job, i) ==
    IF job.Directories[i] \in DOMAIN c.Sources.Directories
    THEN Len(SourceTree(c.Sources.Directories[job.Directories[i]].Path)) ELSE 0
MaxVisits == Len(SourceTree(SourcesDirectories.www.Path))

\* the times at which n successive calls read the clock, the first not before t
RECURSIVE Times(_, _)
Times(n, t) ==
    IF n = 0 THEN {<<>>}
    ELSE { <<u>> \o rest : u \in Later(t), rest \in UNION { Times(n - 1, v) : v \in Later(t) } }

\* the files the sources of a job write: for a directory source, the targets
\* of efficientCopy in the first ks[i] visits of its walk; for a database
\* source, the outputPath of its dump when the dump leaves a file
Wrote(c, job, backupDir, ks, ts, rs) ==
    { [kind |-> "directory", source |-> job.Directories[i],
       path |-> backupDir \o SourceTree(c.Sources.Directories[job.Directories[i]].Path)[n].rel] :
        <<i, n>> \in { p \in (DOMAIN ks) \X (1..MaxVisits) :
                         /\ p[2] <= ks[p[1]]
                         /\ SourceTree(c.Sources.Directories[job.Directories[p[1]]].Path)[p[2]].node.kind = "file" } }
    \cup
    { [kind |-> "database", source |-> job.Databases[i],
       path |-> outputPath(c.Sources.Databases[job.Databases[i]], backupDir, ts[i])] :
        i \in { n \in DOMAIN rs : job.Databases[n] \in DOMAIN c.Sources.Databases /\ rs[n] # "nofile" } }

\* backupJob: the dumps of the sources into the working directory
Dumping ==
    /\ pc = "dumping"
    /\ LET nDirs == IF getJobType(Job) = "databases-only" THEN 0 ELSE Len(Job.Directories)
           nDbs == IF getJobType(Job) = "files-only" THEN 0 ELSE Len(Job.Databases)
       IN  \E ks \in [1..nDirs -> 0..MaxVisits], ts \in Times(nDbs, now),
              rs \in [1..nDbs -> {"ok", "nofile", "partial"}] :
             /\ \A i \in 1..nDirs : ks[i] <= Visits(cfg, Job, i)
             /\ \A i \in 1..(nDbs - 1) : ts[i] <= ts[i + 1]
             /\ fs' = Dump(fs, cfg, Job, jr.backupDir, ks, ts, rs)
             /\ now' = IF nDbs = 0 THEN now ELSE ts[nDbs]
             /\ jr' = [jr EXCEPT !.ops = @ \cup { Op("copy", Job.Directories[i]) : i \in 1..nDirs }
                                             \cup { Op("dump", Job.Databases[i]) : i \in 1..nDbs },
                                 !.ks = ks, !.ts = ts, !.rs = rs,
                                 !.jobType = getJobType(Job),
                                 !.spawned = Spawned(cfg, Job, jr.backupDir, ts, rs),
                                 !.wrote = Wrote(cfg, Job, jr.backupDir, ks, ts, rs),
                                 !.trace = Append(@, "Archiving"),
                                 !.failed = @ \cup (IF (\E i \in 1..nDirs : ks[i] < Visits(cfg, Job, i))
                                                       \/ (\E i \in 1..nDbs : rs[i] # "ok")
                                                    THEN {"dump"} ELSE {})]
    /\ pc' = "archiving"
    /\ UNCHANGED <<cfg, exitCode, load, pending, cur, calls, outcome, store, run, runDirs>>

\* faulty variant of Archiving: the working directory is removed as soon as
\* the archive is written
ArchivingThenRemoveDir ==
    /\ pc = "archiving"
    /\ \E archRes \in {"ok", "create", "walk", "close"}, k \in 0..Len(WalkOrder(fs, jr.backupDir)) :
         LET r == CreateTarGz(fs, jr.backupDir, jr.archivePath, archRes # "create", k, archRes # "close") IN
         /\ (archRes = "walk") = (k < Len(WalkOrder(fs, jr.backupDir)))
         /\ fs' = IF r.err THEN r.fs ELSE RemoveAll(r.fs, jr.backupDir)
         /\ IF r.err
            THEN pc' = "cleanup" /\ outcome' = [outcome EXCEPT ![cur] = "SkippedArchive"]
            ELSE pc' = "uploading" /\ outcome' = outcome
         /\ jr' = [jr EXCEPT !.ops = @ \cup {Op("archive", "")},
                             !.archRes = archRes,
                             !.archive = IF Exists(r.fs, jr.archivePath) THEN r.fs[jr.archivePath] ELSE @,
                             !.trace = IF r.err THEN @ ELSE Append(@, "Uploading"),
                             !.failed = @ \cup (IF archRes # "ok" THEN {"archive"} ELSE {})]
    /\ UNCHANGED <<cfg, exitCode, load, pending, cur, calls, store, now, run, runDirs>>

\* backupJob: util.CreateTarGz, and the return when it fails
Archiving ==
    /\ pc = "archiving"
    /\ \E archRes \in {"ok", "create", "walk", "close"}, k \in 0..Len(WalkOrder(fs, jr.backupDir)) :
         LET r == CreateTarGz(fs, jr.backupDir, jr.archivePath, archRes # "create", k, archRes # "close") IN
         /\ (archRes = "walk") = (k < Len(WalkOrder(fs, jr.backupDir)))
         /\ fs' = r.fs
         /\ IF r.err
            THEN pc' = "cleanup" /\ outcome' = [outcome EXCEPT ![cur] = "SkippedArchive"]
            ELSE pc' = "uploading" /\ outcome' = outcome
         /\ jr' = [jr EXCEPT !.ops = @ \cup {Op("archive", "")},
                             !.archRes = archRes,
                             !.archive = IF Exists(r.fs, jr.archivePath) THEN r.fs[jr.archivePath] ELSE @,
                             !.trace = IF r.err THEN @ ELSE Append(@, "Uploading"),
                             !.failed = @ \cup (IF archRes # "ok" THEN {"archive"} ELSE {})]
    /\ UNCHANGED <<cfg, exitCode, load, pending, cur, calls, store, now, run, runDirs>>

\* backupJob: UploadArchiveToDestinations reaches the next destination
Uploading ==
    /\ pc = "uploading"
    /\ jr.next <= Len(Job.Destinations)
    /\ \E res \in {"ok", "client", "head", "put"} :
         LET destName == Job.Destinations[jr.next]
             r == UploadToDestination(fs, store, cfg, destName, jr.archivePath, res)
         IN  /\ store' = r.store
             /\ jr' = [jr EXCEPT !.uploadErrs = @ \o r.errs, !.next = @ + 1,
                                 !.upRes = Append(@, res), !.puts = @ \o r.puts,
                                 !.ops = @ \cup {Op("attempt", destName)},
                                 !.failed = @ \cup (IF res # "ok" THEN {"upload"} ELSE {})]
    /\ UNCHANGED <<cfg, pc, exitCode, load, pending, cur, calls, outcome, fs, now, run, runDirs>>

\* backupJob: UploadArchiveToDestinations returned; its result is logged
ReportUpload ==
    /\ pc = "uploading"
    /\ jr.next > Len(Job.Destinations)
    /\ outcome' = [outcome EXCEPT ![cur] = UploadReport(jr.uploadErrs)]
    /\ pc' = "cleanup"
    /\ UNCHANGED <<cfg, exitCode, load, pending, cur, jr, calls, fs, store, now, run, runDirs>>

\* backupJob returns after the defer was registered: the deferred function
DeferredCleanup ==
    /\ pc = "cleanup"
    /\ \E rmDirOk \in BOOLEAN, rmArchOk \in BOOLEAN :
         LET r == Cleanup(fs, jr.backupDir, jr.archivePath, rmDirOk, rmArchOk) IN
         /\ fs' = r.fs
         /\ jr' = [jr EXCEPT !.cleanupErrs = r.errs,
                             !.trace = Append(@, "Cleanup"),
                             !.ops = @ \cup {Op("removeall", ""), Op("remove", "")},
                             !.failed = @ \cup (IF rmDirOk THEN {} ELSE {"removeall"})
                                          \cup (IF rmArchOk THEN {} ELSE {"remove"})]
    /\ pc' = "execute"
    /\ UNCHANGED <<cfg, exitCode, load, pending, cur, calls, outcome, store, now, run, runDirs>>

Next ==
    \/ Run
    \/ ExecuteNext
    \/ ExecuteReturn
    \/ ValidateSources
    \/ ValidateDestinations
    \/ CreateDir
    \/ Dumping
    \/ Archiving
    \/ Uploading
    \/ ReportUpload
    \/ DeferredCleanup

Spec == Init /\ [][Next]_vars

\* the configurations in which every field of a job varies
InitConfig == InitWith(ConfigsOver(WideJobConfigs))
SpecConfig == InitConfig /\ [][Next]_vars

\* the command is started again after it exited; the filesystem, the object
\* stores and the clock are those the previous run left
Restart ==
    /\ pc = "exited"
    /\ run <= MaxRestarts
    /\ run' = run + 1
    /\ pc' = "start"
    /\ exitCode' = -1
    /\ load' = NotLoaded
    /\ pending' = {}
    /\ cur' = ""
    /\ jr' = NewRun(fs)
    /\ calls' = [j \in DOMAIN cfg.Jobs |-> 0]
    /\ outcome' = [j \in DOMAIN cfg.Jobs |-> "Pending"]
    /\ UNCHANGED <<cfg, fs, store, now, runDirs>>

\* a configuration of two jobs; every step of the command is taken when it can
\* be: the command is one sequential process, and every external operation
\* returns
InitLive == InitWith({ Config([j \in JobNames |-> JobDb]) })
SpecLive == InitLive /\ [][Next]_vars /\ WF_vars(Next)

InitRuns == InitWith({ Config([j \in {"j1"} |-> JobDb]) })
NextRuns == Next \/ Restart
SpecRuns == InitRuns /\ [][NextRuns]_vars

\* configurations whose one job has two sources of a kind
InitSources == InitWith({ Config([j \in {"j1"} |-> job]) : job \in {JobTwins, JobTwoDirs, JobBoth} })
SpecSources == InitSources /\ [][Next]_vars

\* the destinations config.ValidateAllDestinations is called with
DestinationsWide ==
    [primary |-> DestinationsMap.primary,
     offsite |-> DestinationsMap.offsite,
     cold |-> [Provider |-> "s3", BucketName |-> "bk-cold", Region |-> "us", EndpointURL |-> ""]]
\* config.ValidateAllDestinations is called on a configuration with some of
\* the destinations; pending holds the destinations the range has not reached
InitDestinations ==
    /\ cfg \in { [Config(<<>>) EXCEPT !.Destinations = [d \in names |-> DestinationsWide[d]]] :
                   names \in SUBSET DOMAIN DestinationsWide }
    /\ fs \in InitialFs
    /\ store = {}
    /\ now = 0
    /\ run = 1
    /\ runDirs = {}
    /\ pc = "validatingAll"
    /\ exitCode = -1
    /\ load = NotLoaded
    /\ pending = DOMAIN cfg.Destinations
    /\ cur = ""
    /\ jr = NewRun(fs)
    /\ calls = <<>>
    /\ outcome = <<>>

\* ValidateAllDestinations: the body of the range loop for one destination.
\* res is "client" when NewS3Client fails, "head" when the bucket check
\* fails. After NewS3Client failed s3client is nil, and the call of
\* s3client.ValidateConnection that follows reads c.client of a nil pointer:
\* the function panics
ValidateAllDestinationsStep ==
    /\ pc = "validatingAll"
    /\ \E destName \in pending, res \in {"ok", "client", "head"} :
         /\ pending' = pending \ {destName}
         /\ jr' = [jr EXCEPT !.dstErrs = @ \o (IF res = "ok" THEN <<>>
                                               ELSE <<Err(IF res = "client" THEN "client" ELSE "connection",
                                                          destName)>>),
                             !.ops = @ \cup {Op("newclient", destName)}
                                       \cup (IF res = "client" THEN {} ELSE {Op("headbucket", destName)}),
                             !.failed = @ \cup (IF res = "ok" THEN {} ELSE {destName})]
         /\ pc' = IF res = "client" THEN "panicked" ELSE pc
    /\ UNCHANGED <<cfg, exitCode, load, cur, calls, outcome, fs, store, now, run, runDirs>>

\* ValidateAllDestinations: the range is over; the errors are returned joined
ValidateAllDestinationsReturn ==
    /\ pc = "validatingAll"
    /\ pending = {}
    /\ pc' = "validatedAll"
    /\ exitCode' = IF jr.dstErrs # <<>> THEN 1 ELSE 0
    /\ UNCHANGED <<cfg, load, pending, cur, jr, calls, outcome, fs, store, now, run, runDirs>>

NextDestinations ==
    \/ ValidateAllDestinationsStep
    \/ ValidateAllDestinationsReturn
SpecDestinations == InitDestinations /\ [][NextDestinations]_vars

\* backup.Execute called on a configuration that LoadConfig did not check: a
\* job may name sources and destinations the configuration does not have, or
\* list no source
InitJob ==
    /\ cfg \in { Config([j \in {"j1"} |-> job]) : job \in {JobGhostDb, JobGhostDir, JobGhostDest, JobBoth, JobFiles, JobNoSource} }
    /\ fs \in InitialFs
    /\ store = {}
    /\ now = 0
    /\ run = 1
    /\ runDirs = {}
    /\ pc = "execute"
    /\ exitCode = -1
    /\ load = NotLoaded
    /\ pending = DOMAIN cfg.Jobs
    /\ cur = ""
    /\ jr = NewRun(fs)
    /\ calls = [j \in DOMAIN cfg.Jobs |-> 0]
    /\ outcome = [j \in DOMAIN cfg.Jobs |-> "Pending"]
NextJob ==
    \/ ExecuteNext
    \/ ExecuteReturn
    \/ ValidateSources
    \/ ValidateDestinations
    \/ CreateDir
    \/ Dumping
    \/ Archiving
    \/ Uploading
    \/ ReportUpload
    \/ DeferredCleanup
SpecJob == InitJob /\ [][NextJob]_vars

----------------------------------------------------------------------------
(* Properties *)

Range(seq) == { seq[i] : i \in DOMAIN seq }
Count(seq, x) == Cardinality({ i \in DOMAIN seq : seq[i] = x })
Jobs == DOMAIN cfg.Jobs

\* the violations of a job, stated on the configuration
BadOutput(j) == cfg.Jobs[j].Output.Dir = NoPath \/ cfg.Jobs[j].Output.Name = <<>>
NoSource(j) == cfg.Jobs[j].Databases = <<>> /\ cfg.Jobs[j].Directories = <<>>
NoDestination(j) == cfg.Jobs[j].Destinations = <<>>
Unresolved(list, mapping) == { n \in Range(list) : n \notin DOMAIN mapping }
Violates(j) ==
    \/ BadOutput(j) \/ NoSource(j) \/ NoDestination(j)
    \/ Unresolved(cfg.Jobs[j].Databases, cfg.Sources.Databases) # {}
    \/ Unresolved(cfg.Jobs[j].Directories, cfg.Sources.Directories) # {}
    \/ Unresolved(cfg.Jobs[j].Destinations, cfg.Destinations) # {}
\* the entries a job must have: one per violated rule, one per unresolved reference
Expected(j, e) ==
    CASE e.kind = "output" -> IF BadOutput(j) /\ e.ref = "" THEN 1 ELSE 0
      [] e.kind = "nosource" -> IF NoSource(j) /\ e.ref = "" THEN 1 ELSE 0
      [] e.kind = "nodestination" -> IF NoDestination(j) /\ e.ref = "" THEN 1 ELSE 0
      [] e.kind = "database" ->
           IF e.ref \in Unresolved(cfg.Jobs[j].Databases, cfg.Sources.Databases)
           THEN Count(cfg.Jobs[j].Databases, e.ref) ELSE 0
      [] e.kind = "directory" ->
           IF e.ref \in Unresolved(cfg.Jobs[j].Directories, cfg.Sources.Directories)
           THEN Count(cfg.Jobs[j].Directories, e.ref) ELSE 0
      [] e.kind = "destination" ->
           IF e.ref \in Unresolved(cfg.Jobs[j].Destinations, cfg.Destinations)
           THEN Count(cfg.Jobs[j].Destinations, e.ref) ELSE 0
      [] OTHER -> 0
EntryKinds == {"output", "nosource", "nodestination", "database", "directory", "destination"}
References(j) ==
    {""} \cup Range(cfg.Jobs[j].Databases) \cup Range(cfg.Jobs[j].Directories)
         \cup Range(cfg.Jobs[j].Destinations)

\* C5: validateReferences reports every violation of every job, one entry
\* for each: a job with an empty output dir or name, a job with no source, a
\* job with no destination, each reference that does not resolve; it reports
\* nothing else, and it returns an error iff some job has a violation
C5_AllViolationsReported ==
    load.validated =>
        /\ \A j \in Jobs : \A kind \in EntryKinds : \A ref \in References(j) :
              Count(load.entries, Entry(kind, j, ref)) = Expected(j, Entry(kind, j, ref))
        /\ \A e \in Range(load.entries) :
              e.job \in Jobs /\ e.kind \in EntryKinds /\ e.ref \in References(e.job)
        /\ load.err <=> (\E j \in Jobs : Violates(j))
\* two jobs with violations, one of them naming two unknown databases
C5_Witness ==
    /\ load.validated
    /\ \A j \in JobNames : j \in Jobs /\ Violates(j)
    /\ \E j \in Jobs : cfg.Jobs[j].Databases = <<"ghost", "phantom">>
                         /\ Count(load.entries, Entry("database", j, "ghost")) = 1
                         /\ Count(load.entries, Entry("database", j, "phantom")) = 1

\* C6: a job with no database and no directory fails the validation of the
\* configuration whatever its other fields are: the command exits with code
\* 1 and backupJob never dumps for a job without a source
C6_NoSourceNeverRuns ==
    /\ (\E j \in Jobs : NoSource(j)) =>
          /\ pc \in {"start", "exited"}
          /\ load.validated => load.err /\ (\A j \in Jobs : NoSource(j) => Entry("nosource", j, "") \in Range(load.entries))
          /\ pc = "exited" => exitCode = 1 /\ (\A j \in Jobs : calls[j] = 0)
    /\ pc = "dumping" => Len(Job.Databases) + Len(Job.Directories) > 0
\* a job whose only violation is to have no source
C6_Witness ==
    /\ pc = "exited"
    /\ load.validated
    /\ \E j \in Jobs : load.entries = <<Entry("nosource", j, "")>>

\* LoadConfig was called and failed: the file could not be read, a job
\* violates a rule of the cross-reference validation, or the struct
\* validation refused the configuration
LoadFailed ==
    /\ load.called
    /\ ~load.readOk \/ ~load.structOk \/ (\E j \in Jobs : Violates(j))
LoadSucceeded == load.called /\ ~LoadFailed

\* C9: when loading or cross-reference validation fails, the command exits
\* with code 1 and backupJob is invoked for no job: nothing is probed,
\* dumped, archived or uploaded
C9_LoadFailureRunsNothing ==
    LoadFailed =>
        /\ pc = "exited"
        /\ exitCode = 1
        /\ \A j \in Jobs : calls[j] = 0 /\ outcome[j] = "Pending"
        /\ jr.ops = {}
        /\ store = {}
        /\ fs = jr.fs0
\* the cross-reference validation failed
C9_Witness ==
    /\ pc = "exited"
    /\ load.validated
    /\ load.entries # <<>>
    /\ exitCode = 1

\* C10: once the configuration is loaded and validated the exit code is 0,
\* whatever fails in the jobs
C10_ExitZeroAfterLoad ==
    LoadSucceeded =>
        /\ exitCode \in {-1, 0}
        /\ pc = "exited" <=> exitCode = 0
\* the process exited after a job whose archive and whose cleanup failed
C10_Witness ==
    /\ pc = "exited"
    /\ exitCode = 0
    /\ cur # ""
    /\ outcome[cur] = "SkippedArchive"
    /\ {"archive", "removeall", "remove"} \subseteq jr.failed

\* the last backupJob invocation has returned
Returned == pc \in {"execute", "exited"} /\ cur # ""
WorkDirExists == jr.backupDir # NoPath /\ Exists(fs, jr.backupDir)
ArchiveExists == jr.archivePath # NoPath /\ Exists(fs, jr.archivePath)
\* the steps of a job before its cleanup
PipelineSteps == {"probe", "destination", "mkdir", "dump", "archive", "upload"}

\* C1, as claimed: after backupJob returns, whatever happened, neither the
\* working directory nor the archive file of the job exists
C1_NoArtifactsLeft == Returned => ~WorkDirExists /\ ~ArchiveExists
\* C1, amended: after backupJob returns, the working directory exists only
\* if its os.RemoveAll failed and the archive only if its os.Remove failed
C1_NoArtifactsUnlessRemovalFailed ==
    Returned =>
        /\ WorkDirExists => "removeall" \in jr.failed
        /\ ArchiveExists => "remove" \in jr.failed
\* a job returned after an upload failed, and its cleanup removed the working
\* directory and the archive
C1_Witness ==
    /\ Returned
    /\ outcome[cur] = "CompletedWithUploadErrors"
    /\ jr.deferred
    /\ jr.cleanupErrs = <<>>
    /\ ~WorkDirExists /\ ~ArchiveExists

\* C2: Execute calls backupJob exactly once for every job: never twice, and
\* it returns only when every job was run, whatever the outcomes; a job all
\* of whose steps succeed ends as Completed whatever the other jobs did
C2_EveryJobOnce ==
    /\ \A j \in Jobs : calls[j] <= 1
    /\ pc = "execute" => pending = { j \in Jobs : calls[j] = 0 }
    /\ (pc = "exited" /\ LoadSucceeded) => \A j \in Jobs : calls[j] = 1 /\ outcome[j] # "Pending"
    /\ (Returned /\ jr.failed \cap PipelineSteps = {}) => outcome[cur] = "Completed"
\* both jobs were run: one was skipped at validation and the other completed
C2_Witness ==
    /\ pc = "exited"
    /\ \E j, k \in Jobs : outcome[j] = "SkippedValidation" /\ outcome[k] = "Completed"
                            /\ calls[j] = 1 /\ calls[k] = 1

\* the Uploading phase of the current job is over
Uploaded == cur # "" /\ pc \in {"cleanup", "execute", "exited"}
                     /\ outcome[cur] \in {"Completed", "CompletedWithUploadErrors"}

\* C3: the Uploading phase ends only when every destination of the job was
\* attempted, in order, whatever failed before; and when a destination
\* failed the job is logged as failed at one or more destinations
C3_EveryDestinationAttempted ==
    /\ pc = "uploading" =>
          /\ Len(jr.upRes) = jr.next - 1
          /\ \A i \in 1..(jr.next - 1) : Op("attempt", Job.Destinations[i]) \in jr.ops
    /\ Uploaded =>
          /\ Len(jr.upRes) = Len(Job.Destinations)
          /\ \A i \in 1..Len(Job.Destinations) : Op("attempt", Job.Destinations[i]) \in jr.ops
          /\ (\E i \in 1..Len(jr.upRes) : jr.upRes[i] # "ok") => outcome[cur] = "CompletedWithUploadErrors"
\* the first destination failed, the second received the archive
C3_Witness ==
    /\ Uploaded
    /\ Len(Job.Destinations) = 2
    /\ jr.upRes[1] # "ok" /\ jr.upRes[2] = "ok"
    /\ \E o \in store : o.bucket = cfg.Destinations[Job.Destinations[2]].BucketName
                          /\ o.key = jr.archivePath[Len(jr.archivePath)]
    /\ outcome[cur] = "CompletedWithUploadErrors"

\* the validation of the sources or of the destinations of the job found an error
ValidationFailed == cur # "" /\ (jr.srcErrs # <<>> \/ jr.dstErrs # <<>>)

\* C4: while a job validates, and after a validation failed, the job has
\* created no directory and no file (the filesystem is the one it found),
\* has dumped, archived and uploaded nothing; a failed validation ends it
C4_FailedValidationDoesNothing ==
    (pc \in {"validatingSources", "validatingDestinations"} \/ ValidationFailed) =>
        /\ fs = jr.fs0
        /\ \A o \in jr.ops : o.op \in {"probe", "newclient", "headbucket"}
        /\ jr.backupDir = NoPath /\ jr.archivePath = NoPath
        /\ jr.puts = <<>>
        /\ ValidationFailed => Returned /\ outcome[cur] = "SkippedValidation"
\* the bucket of destination primary is unreachable
C4_Witness ==
    /\ ValidationFailed
    /\ Returned
    /\ jr.srcErrs = <<>>
    /\ Err("connection", "primary") \in Range(jr.dstErrs)
    /\ Op("probe", "orders") \in jr.ops

\* C7, as claimed: two runs of the same job never get the same working
\* directory or the same archive path
C7_PathsUniquePerRun ==
    \A a, b \in runDirs :
        (a.job = b.job /\ a.run # b.run) =>
            a.backupDir # b.backupDir /\ a.archivePath # b.archivePath

\* C8: when every step of a job succeeded, one PutObject was sent per listed
\* destination, to the bucket of that destination, with the base name of the
\* archive as key, and the store holds the archive under that bucket and key
C8_OneObjectPerDestination ==
    (Uploaded /\ jr.failed \cap PipelineSteps = {}) =>
        /\ Len(jr.puts) = Len(Job.Destinations)
        /\ \A i \in 1..Len(Job.Destinations) :
              LET bucket == cfg.Destinations[Job.Destinations[i]].BucketName
                  key == jr.archivePath[Len(jr.archivePath)]
              IN  /\ jr.puts[i] = [bucket |-> bucket, key |-> key]
                  /\ Cardinality({ o \in store : o.bucket = bucket /\ o.key = key }) = 1
                  /\ \A o \in store : (o.bucket = bucket /\ o.key = key) => o.body.data = Str("tar.gz")
                  /\ key = Job.Output.Name \o Str("-") \o SubSeq(key, Len(Job.Output.Name) + 2, Len(key) - 1)
                              \o Str(".tar.gz")
\* a job with two destinations completed
C8_Witness ==
    /\ Returned
    /\ jr.failed \cap PipelineSteps = {}
    /\ outcome[cur] = "Completed"
    /\ Len(Job.Destinations) = 2
    /\ Len(jr.puts) = 2

\* the tree at and below a directory: relative path to kind and content
Tree(f, root) ==
    [r \in { Rel(root, q) : q \in { x \in DOMAIN f : IsPrefix(root, x) } } |->
        [kind |-> f[root \o r].kind, data |-> f[root \o r].data]]
\* the tree the extraction of a tar archive into an empty directory gives: one
\* node per entry, and a directory for every missing parent of an entry
Extract(entries) ==
    [r \in { e.rel : e \in entries } \cup UNION { Prefixes(e.rel) \ {e.rel} : e \in entries } |->
        IF \E e \in entries : e.rel = r
        THEN LET e == CHOOSE x \in entries : x.rel = r IN [kind |-> e.kind, data |-> e.data]
        ELSE [kind |-> "dir", data |-> <<>>]]
\* CreateTarGz wrote and closed the archive of the current job
Archived == cur # "" /\ pc \in {"uploading", "cleanup"} /\ jr.archRes = "ok"

\* C11: the extraction of the archive CreateTarGz wrote gives the tree of the
\* working directory: the same relative paths, kinds and file contents,
\* directories without files included
C11_ArchiveRoundTrip ==
    Archived => Extract(fs[jr.archivePath].tar) = Tree(fs, jr.backupDir)
\* the working directory holds a copied file, a dump and an empty directory,
\* and the archive has an entry for each
C11_Witness ==
    /\ Archived
    /\ Exists(fs, jr.backupDir \o <<Str("img")>>)
    /\ Children(fs, jr.backupDir \o <<Str("img")>>) = {}
    /\ \E e \in fs[jr.archivePath].tar : e.rel = <<Str("img")>> /\ e.kind = "dir"
    /\ \E e \in fs[jr.archivePath].tar : e.rel = <<Str("index.html")>> /\ e.data = Str("<html>")
    /\ \E e \in fs[jr.archivePath].tar : e.kind = "file" /\ Len(e.data) = 3 /\ e.data[1] = "dump"

\* the tokens that are digits only
DigitTokens == {"2025", "11"} \cup { TwoDigits(t) : t \in 0..9 }
\* CreateBackupDir returned the working directory of the current job
DirCreated == cur # "" /\ jr.backupDir # NoPath
\* the part of the name of the working directory after <outputName>-
Stamp == SubSeq(Base(jr.backupDir), Len(Job.Output.Name) + 2, Len(Base(jr.backupDir)))
\* the working directory is <output.Dir>/<outputName>-<stamp> and the archive
\* path is the same path with .tar.gz appended
NamedFromOutput ==
    /\ SubSeq(jr.backupDir, 1, Len(jr.backupDir) - 1) = Job.Output.Dir
    /\ SubSeq(Base(jr.backupDir), 1, Len(Job.Output.Name) + 1) = Job.Output.Name \o <<"-">>
    /\ SubSeq(jr.archivePath, 1, Len(jr.archivePath) - 1) = Job.Output.Dir
    /\ jr.archivePath[Len(jr.archivePath)] = Base(jr.backupDir) \o <<".tar.gz">>

\* C12, as claimed: the working directory is <output.Dir>/<outputName>-
\* followed by the six fields of the timestamp, digits only, no separator
C12_NameWithCompactTimestamp ==
    DirCreated =>
        /\ NamedFromOutput
        /\ Len(Stamp) = 6
        /\ \A i \in 1..Len(Stamp) : Stamp[i] \in DigitTokens
\* C12, amended: the six fields of the timestamp are separated by hyphens
\* (YYYY-MM-DD-HH-MM-SS)
C12_NameWithHyphenatedTimestamp ==
    DirCreated =>
        /\ NamedFromOutput
        /\ Len(Stamp) = 11
        /\ \A i \in {1, 3, 5, 7, 9, 11} : Stamp[i] \in DigitTokens
        /\ \A i \in {2, 4, 6, 8, 10} : Stamp[i] = "-"
\* a working directory created at second 1 of the clock
C12_Witness ==
    /\ DirCreated
    /\ pc = "dumping"
    /\ Exists(fs, jr.backupDir)
    /\ Stamp[11] = "01"

\* the archive of the current job was not written whole: os.Create, the walk
\* or a Close of the writers failed
ArchivingFailed == cur # "" /\ jr.archRes \in {"create", "walk", "close"}

\* C13, as claimed: when archiving failed, no upload is attempted to any
\* destination of the job, and the removals of the cleanup are run before
\* backupJob returns
C13_ArchiveFailureStopsJob ==
    ArchivingFailed =>
        /\ \A o \in jr.ops : o.op # "attempt"
        /\ jr.puts = <<>>
        /\ pc # "uploading"
        /\ Returned => {Op("removeall", ""), Op("remove", "")} \subseteq jr.ops

\* the Dumping phase of the current job is over
Dumped == cur # "" /\ jr.backupDir # NoPath /\ pc # "dumping"
\* directory source i of the job was copied whole into the working directory
CopiedWhole(i) ==
    LET tree == SourceTree(cfg.Sources.Directories[Job.Directories[i]].Path) IN
    \A n \in 1..Len(tree) :
        /\ Exists(fs, jr.backupDir \o tree[n].rel)
        /\ fs[jr.backupDir \o tree[n].rel] = tree[n].node
\* the dump of database source i of the job is in the working directory
DumpedWhole(i) ==
    LET db == cfg.Sources.Databases[Job.Databases[i]]
        path == Join(jr.backupDir, <<db.Name, "_">> \o TimeFormat("20060102150405", jr.ts[i])
                                    \o <<fileExtension(db)>>)
    IN  Exists(fs, path) /\ fs[path].data = <<"dump", db.Host, db.Name>>

\* C14: whatever sources failed in the Dumping phase, every source of the
\* job was processed: the sources that did not fail left their whole output
\* in the working directory, and the job went on to CreateTarGz
C14_DumpFailuresDoNotAbort ==
    Dumped =>
        /\ \A i \in DOMAIN jr.ks : Op("copy", Job.Directories[i]) \in jr.ops
        /\ \A i \in DOMAIN jr.rs : Op("dump", Job.Databases[i]) \in jr.ops
        /\ DOMAIN jr.ks = (IF Job.Databases # <<>> /\ Job.Directories = <<>> THEN {} ELSE DOMAIN Job.Directories)
        /\ DOMAIN jr.rs = (IF Job.Directories # <<>> /\ Job.Databases = <<>> THEN {} ELSE DOMAIN Job.Databases)
        /\ pc = "archiving" =>
              /\ \A i \in DOMAIN jr.ks :
                    (Job.Directories[i] \in DOMAIN cfg.Sources.Directories
                     /\ jr.ks[i] = Visits(cfg, Job, i)) => CopiedWhole(i)
              /\ \A i \in DOMAIN jr.rs :
                    (Job.Databases[i] \in DOMAIN cfg.Sources.Databases /\ jr.rs[i] = "ok") => DumpedWhole(i)
        /\ pc # "archiving" => Op("archive", "") \in jr.ops
\* the first database of a job failed to dump, a directory name did not
\* resolve or a copy failed, and the last database was dumped
C14_Witness ==
    /\ Dumped
    /\ pc = "archiving"
    /\ Len(jr.rs) = 2
    /\ jr.rs[1] # "ok" /\ jr.rs[2] = "ok"
    /\ jr.ks[1] < Visits(cfg, Job, 1)
    /\ DumpedWhole(2)

\* validateJobDatabases returned for the current job
SourcesValidated == cur # "" /\ pc # "validatingSources"
\* the databases of the job that validateJobDatabases must report
FailedDatabases ==
    { i \in DOMAIN Job.Databases :
        Job.Databases[i] \notin DOMAIN cfg.Sources.Databases \/ ~jr.probe[i] }

\* C15: validateJobDatabases reports every database of the job that does not
\* resolve or whose probe fails, one error each and nothing else; it probes
\* every database that resolves and no directory; the job is skipped, with
\* no further work, iff an error was reported
C15_EveryDatabaseExamined ==
    SourcesValidated =>
        /\ Len(jr.srcErrs) = Cardinality(FailedDatabases)
        /\ \A i \in FailedDatabases :
              Err(IF Job.Databases[i] \in DOMAIN cfg.Sources.Databases THEN "connection" ELSE "notfound",
                  Job.Databases[i]) \in Range(jr.srcErrs)
        /\ \A i \in DOMAIN Job.Databases :
              Job.Databases[i] \in DOMAIN cfg.Sources.Databases => Op("probe", Job.Databases[i]) \in jr.ops
        /\ \A o \in jr.ops : o.op = "probe" => o.target \in Range(Job.Databases) \ Range(Job.Directories)
        /\ FailedDatabases # {} <=>
              (outcome[cur] = "SkippedValidation" /\ jr.trace = <<"ValidatingSources">>
               /\ Returned /\ fs = jr.fs0 /\ \A o \in jr.ops : o.op = "probe")
        /\ FailedDatabases = {} => Len(jr.trace) >= 2 /\ jr.trace[2] = "ValidatingDestinations"
\* the first database of the job does not resolve and the probe of the
\* second fails: two errors, the job is skipped
C15_Witness ==
    /\ SourcesValidated
    /\ jr.srcErrs = <<Err("notfound", "ghost"), Err("connection", "orders")>>
    /\ outcome[cur] = "SkippedValidation"

\* validateJobDestinations returned for the current job
DestinationsValidated == cur # "" /\ Len(jr.vres) = Len(Job.Destinations) /\ jr.srcErrs = <<>>
                         /\ pc \notin {"validatingSources", "validatingDestinations"}
\* the destinations of the job that validateJobDestinations must report
FailedDestinations ==
    { i \in DOMAIN Job.Destinations :
        Job.Destinations[i] \notin DOMAIN cfg.Destinations \/ jr.vres[i] # "ok" }

\* C16: validateJobDestinations reports every destination of the job that
\* does not resolve, whose client cannot be built or whose bucket check
\* fails, exactly one error each and nothing else; the job is skipped iff an
\* error was reported
C16_EveryDestinationExamined ==
    DestinationsValidated =>
        /\ Len(jr.dstErrs) = Cardinality(FailedDestinations)
        /\ \A i \in FailedDestinations :
              Err(IF Job.Destinations[i] \notin DOMAIN cfg.Destinations THEN "notfound"
                  ELSE IF jr.vres[i] = "client" THEN "client" ELSE "connection",
                  Job.Destinations[i]) \in Range(jr.dstErrs)
        /\ \A i \in DOMAIN Job.Destinations :
              Job.Destinations[i] \in DOMAIN cfg.Destinations => Op("newclient", Job.Destinations[i]) \in jr.ops
        /\ FailedDestinations # {} <=>
              (outcome[cur] = "SkippedValidation" /\ jr.trace = <<"ValidatingSources", "ValidatingDestinations">>
               /\ Returned /\ fs = jr.fs0)
        /\ FailedDestinations = {} => Len(jr.trace) >= 3 /\ jr.trace[3] = "CreatingDir"
\* the first destination of the job does not resolve and the bucket check of
\* the second fails: two errors, the job is skipped
C16_Witness ==
    /\ DestinationsValidated
    /\ jr.dstErrs = <<Err("notfound", "nowhere"), Err("connection", "primary")>>
    /\ outcome[cur] = "SkippedValidation"

\* the phases of a job run, in the order of backupJob
PhaseOrder == <<"ValidatingSources", "ValidatingDestinations", "CreatingDir", "Dumping", "Archiving", "Uploading">>
TerminalStates == {"SkippedValidation", "SkippedArchive", "Completed", "CompletedWithUploadErrors"}
\* the phases the current job went through, the cleanup left out
Phases == SelectSeq(jr.trace, LAMBDA ph : ph # "Cleanup")

\* C17, as claimed: the phases of a job run are an initial part of the phase
\* order; Dumping starts only after both validations succeeded, Uploading
\* only after the archive was written, and in a terminal state the run is in
\* none of the Dumping, Archiving and Uploading phases
C17_PhaseOrder ==
    cur # "" =>
        /\ Phases = SubSeq(PhaseOrder, 1, Len(Phases))
        /\ "Dumping" \in Range(jr.trace) =>
              /\ \A i \in DOMAIN Job.Databases :
                    Job.Databases[i] \in DOMAIN cfg.Sources.Databases /\ jr.probe[i]
              /\ \A i \in DOMAIN Job.Destinations :
                    Job.Destinations[i] \in DOMAIN cfg.Destinations /\ jr.vres[i] = "ok"
        /\ "Archiving" \in Range(jr.trace) =>
              \A i \in DOMAIN Job.Databases : Op("dump", Job.Databases[i]) \in jr.ops
        /\ "Uploading" \in Range(jr.trace) => jr.archRes = "ok"
        /\ outcome[cur] \in TerminalStates => pc \in {"cleanup", "execute", "exited"}

\* the current job reached a terminal state
Finished == cur # "" /\ outcome[cur] # "Pending" /\ pc \in {"cleanup", "execute", "exited"}
\* the destinations of the job at which the upload did not succeed
FailedUploads == { i \in DOMAIN Job.Destinations : i > Len(jr.upRes) \/ jr.upRes[i] # "ok" }

\* C18: a job finishes as Completed iff the upload succeeded at every
\* destination it lists; a job whose uploads were attempted and of which one
\* or more failed finishes as CompletedWithUploadErrors, and the error
\* returned has one entry for every failed destination, naming it
C18_CompletedIffAllUploaded ==
    Finished =>
        /\ outcome[cur] = "Completed" <=> FailedUploads = {}
        /\ (jr.upRes # <<>> /\ FailedUploads # {}) =>
              /\ outcome[cur] = "CompletedWithUploadErrors"
              /\ Len(jr.uploadErrs) = Cardinality(FailedUploads)
              /\ \A i \in FailedUploads : \E n \in DOMAIN jr.uploadErrs :
                    jr.uploadErrs[n].name = Job.Destinations[i]
        /\ FailedUploads = {} =>
              \A i \in DOMAIN Job.Destinations : \E o \in store :
                  /\ o.bucket = cfg.Destinations[Job.Destinations[i]].BucketName
                  /\ o.key = jr.archivePath[Len(jr.archivePath)]
\* both destinations of a job failed, for different reasons, and both are named
C18_Witness ==
    /\ Finished
    /\ Len(Job.Destinations) = 2
    /\ jr.upRes = <<"head", "put">>
    /\ { e.name : e \in Range(jr.uploadErrs) } = Range(Job.Destinations)
    /\ outcome[cur] = "CompletedWithUploadErrors"

\* C19, as claimed: two distinct directory sources of a job never write the
\* same path of the working directory
C19_DirectorySourcesDisjoint ==
    \A a, b \in jr.wrote :
        (a.kind = "directory" /\ b.kind = "directory" /\ a.source # b.source) => a.path # b.path

\* C20, as claimed: the dump files of two distinct database sources of a job
\* are distinct files, whatever the seconds at which they are dumped
C20_DumpFilesDisjoint ==
    \A a, b \in jr.wrote :
        (a.kind = "database" /\ b.kind = "database" /\ a.source # b.source) => a.path # b.path

\* C21: when Dumping starts the working directory of the job holds nothing:
\* whatever the archive will hold is output of this run, also when a
\* directory of the derived name was already there
C21_WorkDirFresh ==
    (cur # "" /\ pc = "dumping") => Children(fs, jr.backupDir) = {}

\* C22: two different jobs of a configuration never get the same working
\* directory or the same archive path
C22_PathsUniquePerJob ==
    \A a, b \in runDirs :
        (a.run = b.run /\ a.job # b.job) =>
            a.backupDir # b.backupDir /\ a.archivePath # b.archivePath

\* the sources the directory copier and the database dumper were invoked on
Copied == { o.target : o \in { x \in jr.ops : x.op = "copy" } }
DumpedDatabases == { o.target : o \in { x \in jr.ops : x.op = "dump" } }
\* backupJob invoked the copier and the dumper as the job type says
DumpersFollowJobType ==
    /\ Copied = (IF jr.jobType \in {"files-only", "both"} THEN Range(Job.Directories) ELSE {})
    /\ DumpedDatabases = (IF jr.jobType \in {"databases-only", "both"} THEN Range(Job.Databases) ELSE {})

AfterCreateDir == {"dumping", "archiving", "uploading", "cleanup"}
\* the objects the uploads of the current job have put so far
PutSoFar ==
    { Object(cfg.Destinations[Job.Destinations[i]].BucketName, objectKey(jr.archivePath), jr.archive) :
        i \in { n \in DOMAIN jr.upRes : jr.upRes[n] = "ok" } }

\* C24: while the uploads of a job are attempted the archive file exists and
\* is the file Archiving wrote, and every object put so far holds it; the
\* working directory is there from its creation to the cleanup, and a removal
\* is attempted only when the job reached its terminal state and every
\* destination was attempted
C24_CleanupAfterLastUpload ==
    /\ (cur # "" /\ pc = "uploading") =>
           /\ ArchiveExists
           /\ fs[jr.archivePath] = jr.archive
           /\ PutSoFar \subseteq store
    /\ (cur # "" /\ pc \in AfterCreateDir) => WorkDirExists
    /\ (cur # "" /\ (Op("removeall", "") \in jr.ops \/ Op("remove", "") \in jr.ops)) =>
           /\ outcome[cur] \in TerminalStates
           /\ pc \in {"execute", "exited"}
           /\ outcome[cur] \in {"Completed", "CompletedWithUploadErrors"} =>
                  Len(jr.upRes) = Len(Job.Destinations)
\* a job whose second upload is being attempted after the first succeeded: the
\* archive and the working directory are there
C24_Witness ==
    /\ cur # "" /\ pc = "uploading"
    /\ jr.next = 2 /\ Len(Job.Destinations) = 2
    /\ jr.upRes = <<"ok">>
    /\ ArchiveExists /\ WorkDirExists
    /\ fs[jr.archivePath] = jr.archive

\* C25: the deferred cleanup changes neither the outcome of the job nor the
\* exit code; each of the two removals that did not fail took effect,
\* whatever happened to the other, and each one that failed is logged; and
\* the loop of Execute goes on with the jobs still pending
C25_CleanupFailureOnlyReported ==
    [][(pc = "cleanup") =>
          /\ outcome' = outcome /\ exitCode' = exitCode
          /\ "removeall" \notin jr'.failed => ~Exists(fs', jr.backupDir)
          /\ "remove" \notin jr'.failed => ~Exists(fs', jr.archivePath)
          /\ "removeall" \in jr'.failed => Err("cleanup", "backupDir") \in Range(jr'.cleanupErrs)
          /\ "remove" \in jr'.failed => Err("cleanup", "archive") \in Range(jr'.cleanupErrs)
          /\ pc' = "execute" /\ pending' = pending /\ cur' = cur]_vars
\* a job completed, the removal of its working directory failed and the
\* archive was removed all the same; another job is still to run
C25_Witness ==
    /\ Returned /\ pc = "execute"
    /\ outcome[cur] = "Completed"
    /\ "removeall" \in jr.failed /\ "remove" \notin jr.failed
    /\ WorkDirExists /\ ~ArchiveExists
    /\ pending # {}

\* the jobs that started and whose backupJob has not returned
InFlight ==
    { j \in Jobs : calls[j] > 0 /\ (outcome[j] = "Pending" \/ (j = cur /\ pc \notin {"execute", "exited"})) }
\* the working directories and archives of the jobs of this run that returned
ReturnedDirs == { d \in runDirs : d.run = run /\ (d.job # cur \/ pc \in {"execute", "exited"}) }
\* the next job has started and has not performed its first step
AtFirstStep == cur # "" /\ pc = "validatingSources"

\* C26, as claimed: at most one job is between its start and the end of its
\* cleanup, and when the next job is about to perform its first step the
\* working directory and the archive of every job before it are gone
C26_OneJobArtifactsGone ==
    /\ Cardinality(InFlight) <= 1
    /\ AtFirstStep =>
           \A d \in ReturnedDirs : ~Exists(fs, d.backupDir) /\ ~Exists(fs, d.archivePath)
\* C26, amended: at most one job is between its start and the end of its
\* cleanup; a job has returned, cleanup included, before the next one starts,
\* and when it returned its working directory is left only if os.RemoveAll
\* failed and its archive only if os.Remove failed
C26_OneJobArtifactsGoneUnlessRemovalFailed ==
    /\ [](/\ Cardinality(InFlight) <= 1
          /\ (cur # "" /\ pc \notin {"execute", "exited"}) => InFlight = {cur}
          /\ (pc = "execute" /\ cur # "") =>
                 /\ InFlight = {}
                 /\ \A d \in ReturnedDirs :
                        d.job = cur =>
                            /\ Exists(fs, d.backupDir) => "removeall" \in jr.failed
                            /\ Exists(fs, d.archivePath) => "remove" \in jr.failed)
    /\ [][cur' # cur => pc = "execute" /\ pc' = "validatingSources" /\ fs' = fs]_vars
\* the second job of a run is about to perform its first step; the first
\* job created its artifacts and they are gone
C26_Witness ==
    /\ AtFirstStep
    /\ InFlight = {cur}
    /\ \E d \in ReturnedDirs : ~Exists(fs, d.backupDir) /\ ~Exists(fs, d.archivePath)

\* the terminal state the results of the job's own external operations give
OwnOutcome ==
    IF FailedDatabases # {} THEN "SkippedValidation"
    ELSE IF FailedDestinations # {} THEN "SkippedValidation"
    ELSE IF "mkdir" \in jr.failed THEN "SkippedCreateDir"
    ELSE IF jr.archRes \in {"create", "walk"} THEN "SkippedArchive"
    ELSE IF FailedUploads = {} THEN "Completed"
    ELSE "CompletedWithUploadErrors"
\* the archive the job's own sources and results give in a working directory
\* that no other job has used
OwnArchive ==
    LET own == Dump(MkdirAll(<<>>, jr.backupDir), cfg, Job, jr.backupDir, jr.ks, jr.ts, jr.rs)
    IN  CreateTarGz(own, jr.backupDir, jr.archivePath, TRUE,
                    Len(WalkOrder(own, jr.backupDir)), jr.archRes # "close").fs[jr.archivePath]

\* C27: the terminal state of a job and the objects it uploads are given by
\* its own configuration, the clock readings and the results of its own
\* external operations, whatever jobs ran before it: no order of the jobs
\* changes them
C27_OrderIndependent ==
    Returned =>
        /\ outcome[cur] = OwnOutcome
        /\ jr.archRes \in {"ok", "close"} => jr.archive = OwnArchive

\* the passwords of the database sources of the current job
Passwords ==
    { cfg.Sources.Databases[n].Password :
        n \in { x \in Range(Job.Databases) : x \in DOMAIN cfg.Sources.Databases } }
\* the paths at or below the working directory of the current job
InWorkDir == { p \in DOMAIN fs : IsPrefix(jr.backupDir, p) }

\* C28: every dump process receives the password of its database in its
\* environment, as PGPASSWORD for pg_dump and MYSQL_PWD for mysqldump, and
\* in no argument; no file of the working directory holds or is named by a
\* password of the job
C28_PasswordOnlyInEnvironment ==
    Dumped =>
        /\ \A cmd \in jr.spawned :
               /\ \A i \in DOMAIN cmd.args : Range(cmd.args[i]) \cap Passwords = {}
               /\ \E pw \in Passwords :
                      <<(IF cmd.name = "pg_dump" THEN "PGPASSWORD" ELSE "MYSQL_PWD"), "=", pw>> \in cmd.env
        /\ \A p \in InWorkDir :
               /\ Range(fs[p].data) \cap Passwords = {}
               /\ \A i \in DOMAIN p : Range(p[i]) \cap Passwords = {}
\* a job with a postgres and a mysql database dumped both: pg_dump and
\* mysqldump were started and their files are in the working directory
C28_Witness ==
    /\ Dumped /\ pc = "archiving"
    /\ { cmd.name : cmd \in jr.spawned } = {"pg_dump", "mysqldump"}
    /\ jr.rs = <<"ok", "ok">>
    /\ Cardinality({ p \in InWorkDir : fs[p].kind = "file" /\ fs[p].data[1] = "dump" }) = 2

\* backupCmd.Run has returned; when the configuration was loaded, every job
\* was invoked once and reached a terminal state
Terminated ==
    /\ pc = "exited"
    /\ LoadSucceeded => \A j \in Jobs : calls[j] = 1 /\ outcome[j] # "Pending"
\* the deferred function of the current job has run
CleanupExecuted == Op("removeall", "") \in jr.ops /\ Op("remove", "") \in jr.ops

\* C29, as claimed: when Execute has returned, the cleanup of the job that
\* ran last was executed, as the cleanup of every job
C29_EveryJobCleanedUp ==
    (pc = "exited" /\ cur # "") => CleanupExecuted
\* C29, amended: every run terminates with every job in a terminal state, and
\* a job that created its working directory has returned only after its
\* cleanup was executed
C29_TerminatesCleanupIfDirCreated ==
    /\ <>Terminated
    /\ []((Returned /\ jr.deferred) => CleanupExecuted)
\* the command exited after its two jobs ran; the last one uploaded and its
\* cleanup was executed
C29_Witness ==
    /\ Terminated /\ LoadSucceeded
    /\ Cardinality(Jobs) = 2
    /\ outcome[cur] \in {"Completed", "CompletedWithUploadErrors"}
    /\ jr.deferred /\ CleanupExecuted

\* the steps of validateJobDestinations that reach a store
DestinationChecks == { o \in jr.ops : o.op \in {"newclient", "headbucket"} }

\* C30: when a database of a job does not validate, the job is skipped with
\* its destinations untouched: no client is built, no bucket is checked and
\* no destination error is reported; a destination check or a destination
\* error is there only for a job whose databases all validated
C30_NoDestinationCheckAfterSourceFailure ==
    SourcesValidated =>
        /\ FailedDatabases # {} =>
               /\ DestinationChecks = {}
               /\ jr.dstErrs = <<>> /\ jr.vres = <<>>
               /\ outcome[cur] = "SkippedValidation"
               /\ pc \in {"execute", "exited"}
        /\ (DestinationChecks # {} \/ jr.dstErrs # <<>>) => FailedDatabases = {}
\* a job returned after the probe of one of its databases failed; it lists
\* destinations and none was checked
C30_Witness ==
    /\ Returned
    /\ "probe" \in jr.failed
    /\ Job.Destinations # <<>>
    /\ Range(Job.Destinations) \subseteq DOMAIN cfg.Destinations
    /\ DestinationChecks = {}
    /\ outcome[cur] = "SkippedValidation"

\* p is the working directory of the current job, a path below it, or its
\* archive file
Own(p) == jr.backupDir # NoPath /\ (IsPrefix(jr.backupDir, p) \/ p = jr.archivePath)

\* C31: whatever a job did so far, every path that was there when the job
\* started and is not its working directory or its archive is there
\* unchanged; a path that was not there is one of its own, or the output
\* directory or a parent of it; and the output directory of a job that
\* created its working directory is there, after the cleanup too
C31_OnlyOwnArtifactsTouched ==
    cur # "" =>
        /\ \A p \in DOMAIN jr.fs0 : ~Own(p) => Exists(fs, p) /\ fs[p] = jr.fs0[p]
        /\ \A p \in DOMAIN fs \ DOMAIN jr.fs0 : Own(p) \/ p \in Prefixes(Job.Output.Dir)
        /\ jr.deferred => Exists(fs, Job.Output.Dir)
\* a job returned after its cleanup removed its working directory and its
\* archive; the working directory another job left under the output directory
\* is still there with its content
C31_Witness ==
    /\ Returned /\ jr.deferred
    /\ ~WorkDirExists /\ ~ArchiveExists
    /\ \E d \in runDirs :
           /\ d.job # cur /\ d.backupDir # jr.backupDir
           /\ Exists(jr.fs0, d.backupDir) /\ Exists(fs, d.backupDir)
           /\ \E p \in DOMAIN fs : IsPrefix(d.backupDir, p) /\ fs[p].kind = "file"

\* the steps a job can have performed when util.CreateBackupDir is called
StepsBeforeDump == {"probe", "newclient", "headbucket", "mkdir"}

\* C32: when util.CreateBackupDir fails the job has returned: it dumped,
\* archived and uploaded nothing, no removal was attempted and no cleanup
\* error logged; the loop of Execute goes on, so that at exit every job of
\* the configuration was invoked once
C32_CreateDirFailureEndsJob ==
    /\ (cur # "" /\ "mkdir" \in jr.failed) =>
           /\ Returned /\ outcome[cur] = "SkippedCreateDir"
           /\ \A o \in jr.ops : o.op \in StepsBeforeDump
           /\ jr.backupDir = NoPath /\ jr.archivePath = NoPath
           /\ jr.puts = <<>> /\ jr.upRes = <<>> /\ jr.spawned = {}
           /\ jr.cleanupErrs = <<>> /\ ~jr.deferred
           /\ DOMAIN jr.fs0 \subseteq DOMAIN fs
           /\ exitCode \in {-1, 0}
    /\ (pc = "exited" /\ \E j \in Jobs : outcome[j] = "SkippedCreateDir") =>
           \A j \in Jobs : calls[j] = 1 /\ outcome[j] # "Pending"
\* the working directory of one job could not be created; the other job ran
\* after it and completed
C32_Witness ==
    /\ Returned
    /\ outcome[cur] = "Completed"
    /\ \E j \in Jobs : j # cur /\ outcome[j] = "SkippedCreateDir"

\* C33: ValidateAllDestinations never panics; when it has returned, every
\* destination of the configuration was checked, the errors hold one entry
\* for every destination that failed and for no other, and an error is
\* returned iff a destination failed
C33_ValidateAllNeverCrashes ==
    /\ pc # "panicked"
    /\ pc = "validatedAll" =>
           /\ \A d \in DOMAIN cfg.Destinations : Op("newclient", d) \in jr.ops
           /\ \A d \in DOMAIN cfg.Destinations :
                  Cardinality({ i \in DOMAIN jr.dstErrs : jr.dstErrs[i].name = d }) =
                      (IF d \in jr.failed THEN 1 ELSE 0)
           /\ (exitCode = 1) = (jr.failed # {})

====
